---- MODULE Spec2Model ----
(***************************************************************************)
(* A model of the signing core of hyperliquid-cpp: the msgpack encoding of *)
(* an action (packJson), the action hash framing (actionHash), the         *)
(* deterministic secp256k1 signer (generateDeterministicK, signHash,       *)
(* calculateRecoveryId, bnToHex) and the key import                        *)
(* (createKeyFromPrivate).                                                  *)
(*                                                                         *)
(* Strings are sequences of character codes and byte vectors are sequences *)
(* of 0..255.  A 64-bit integer is its bit pattern, four 16-bit limbs,     *)
(* most significant first, so that int64_t and uint64_t keep their width.  *)
(* Keccak-256 is modelled as a collision-free function (the digest is the  *)
(* tagged preimage).  The curve is scaled from 256 to 12 bits: a curve     *)
(* y^2 = x^3 + 7 of prime order over a 12-bit prime field, with 2-byte     *)
(* scalars, digests and HMAC outputs in place of the 32-byte ones.         *)
(***************************************************************************)
EXTENDS Integers, Sequences, FiniteSets, TLC

VARIABLES vault_address_, expires_after_, hashCall,
          ec_key_, signCall, watch, keyCall,
          typedCall, actionCall,
          calls, heap, wallets, loop, posted, base_url_,
          name_to_coin_, coin_to_asset_, asset_to_sz_decimals_, infoCall

encVars == <<vault_address_, expires_after_, hashCall>>
signVars == <<ec_key_, signCall, watch>>
keyVars == <<keyCall>>
typedVars == <<typedCall, actionCall>>
coreVars == <<encVars, signVars, keyVars, typedVars>>
threadVars == <<calls>>
ownVars == <<heap, wallets>>
nonceVars == <<loop>>
postVars == <<posted, base_url_>>
infoVars == <<name_to_coin_, coin_to_asset_, asset_to_sz_decimals_, infoCall>>
extVars == <<threadVars, ownVars, nonceVars, postVars, infoVars>>
vars == <<coreVars, extVars>>

None == <<"none", 0>>
Some(x) == <<"some", x>>

(***************************************************************************)
(* Character codes and strings                                             *)
(***************************************************************************)
Rep(c, n) == [i \in 1..n |-> c]

S_type == <<116, 121, 112, 101>>
S_cancel == <<99, 97, 110, 99, 101, 108>>
S_cancels == <<99, 97, 110, 99, 101, 108, 115>>
S_a == <<97>>
S_o == <<111>>
S_updateLeverage == <<117, 112, 100, 97, 116, 101, 76, 101, 118, 101, 114, 97, 103, 101>>
S_asset == <<97, 115, 115, 101, 116>>
S_isCross == <<105, 115, 67, 114, 111, 115, 115>>
S_leverage == <<108, 101, 118, 101, 114, 97, 103, 101>>

\* std::less<std::string>: bytewise lexicographic order
RECURSIVE StrLess(_, _)
StrLess(s, t) ==
    IF t = <<>> THEN FALSE
    ELSE IF s = <<>> THEN TRUE
    ELSE IF Head(s) # Head(t) THEN Head(s) < Head(t)
    ELSE StrLess(Tail(s), Tail(t))

(***************************************************************************)
(* 64-bit integers as bit patterns                                         *)
(***************************************************************************)
\* the int64_t holding a small non-negative or negative value
I64(i) == IF i >= 0 THEN <<0, 0, i \div 65536, i % 65536>>
          ELSE <<65535, 65535, (i \div 65536) % 65536, i % 65536>>

\* (x >> (i * 8)) & 0xFF, i in 0..7
ByteOf(x, i) == (x[4 - (i \div 2)] \div (IF i % 2 = 1 THEN 256 ELSE 1)) % 256

\* for (int i = 7; i >= 0; --i) push_back((x >> (i * 8)) & 0xFF)
BigEndian8(x) == [j \in 1..8 |-> ByteOf(x, 8 - j)]

(***************************************************************************)
(* JSON values.  An object holds its pairs as a sequence of <<key, value>>; *)
(* ordered_json keeps them in insertion order, nlohmann::json (object_t =  *)
(* std::map) keeps them sorted by key.                                     *)
(***************************************************************************)
JNull == <<"null", 0>>
JBool(b) == <<"bool", b>>
JInt(x) == <<"int", x>>
JUint(x) == <<"uint", x>>
JStr(s) == <<"str", s>>
JArr(items) == <<"arr", items>>
JObj(pairs) == <<"obj", pairs>>

\* insertion of one pair into a std::map kept as a sorted sequence
RECURSIVE MapInsert(_, _)
MapInsert(pairs, kv) ==
    IF pairs = <<>> THEN <<kv>>
    ELSE IF StrLess(kv[1], Head(pairs)[1]) THEN <<kv>> \o pairs
    ELSE IF kv[1] = Head(pairs)[1] THEN pairs
    ELSE <<Head(pairs)>> \o MapInsert(Tail(pairs), kv)

RECURSIVE MapFrom(_, _)
MapFrom(pairs, acc) ==
    IF pairs = <<>> THEN acc
    ELSE MapFrom(Tail(pairs), MapInsert(acc, Head(pairs)))

\* the nlohmann::json made from a value the caller built (the conversion that
\* binds an ordered_json, or an initializer list, to a const nlohmann::json&)
RECURSIVE ToJson(_)
ToJson(v) ==
    IF v[1] = "arr" THEN JArr([i \in 1..Len(v[2]) |-> ToJson(v[2][i])])
    ELSE IF v[1] = "obj"
         THEN JObj(MapFrom([i \in 1..Len(v[2]) |->
                              <<v[2][i][1], ToJson(v[2][i][2])>>], <<>>))
    ELSE v

(***************************************************************************)
(* msgpack::packer, as packJson drives it                                  *)
(***************************************************************************)
LowBytes(x, k) == [j \in 1..k |-> ByteOf(x, k - j)]

IsNeg(x) == x[1] >= 32768

\* 0 <= d < 2^bits for a non-negative d, bits in {7, 8, 16, 32}
Below(x, bits) ==
    CASE bits = 7 -> x[1] = 0 /\ x[2] = 0 /\ x[3] = 0 /\ x[4] < 128
      [] bits = 8 -> x[1] = 0 /\ x[2] = 0 /\ x[3] = 0 /\ x[4] < 256
      [] bits = 16 -> x[1] = 0 /\ x[2] = 0 /\ x[3] = 0
      [] bits = 32 -> x[1] = 0 /\ x[2] = 0

\* d >= -(2^bits) for a negative d, bits in {5, 7, 15, 31}
NotBelowNeg(x, bits) ==
    CASE bits = 5 -> x[1] = 65535 /\ x[2] = 65535 /\ x[3] = 65535 /\ x[4] >= 65504
      [] bits = 7 -> x[1] = 65535 /\ x[2] = 65535 /\ x[3] = 65535 /\ x[4] >= 65408
      [] bits = 15 -> x[1] = 65535 /\ x[2] = 65535 /\ x[3] = 65535 /\ x[4] >= 32768
      [] bits = 31 -> x[1] = 65535 /\ x[2] = 65535 /\ x[3] >= 32768

\* packer.pack(int64_t): the narrowest msgpack integer holding d
pack_int64(d) ==
    IF IsNeg(d) /\ ~NotBelowNeg(d, 5)
    THEN IF ~NotBelowNeg(d, 15)
         THEN IF ~NotBelowNeg(d, 31) THEN <<211>> \o LowBytes(d, 8)
              ELSE <<210>> \o LowBytes(d, 4)
         ELSE IF ~NotBelowNeg(d, 7) THEN <<209>> \o LowBytes(d, 2)
              ELSE <<208>> \o LowBytes(d, 1)
    ELSE IF IsNeg(d) \/ Below(d, 7) THEN LowBytes(d, 1)
    ELSE IF Below(d, 16)
         THEN IF Below(d, 8) THEN <<204>> \o LowBytes(d, 1)
              ELSE <<205>> \o LowBytes(d, 2)
         ELSE IF Below(d, 32) THEN <<206>> \o LowBytes(d, 4)
              ELSE <<207>> \o LowBytes(d, 8)

\* a count or length n as k big-endian bytes
CountBytes(n, k) == [j \in 1..k |-> (n \div (256 ^ (k - j))) % 256]

\* packer.pack(std::string): pack_str(size) and the body
pack_str(s) ==
    LET n == Len(s) IN
    (IF n < 32 THEN <<160 + n>>
     ELSE IF n < 256 THEN <<217>> \o CountBytes(n, 1)
     ELSE IF n < 65536 THEN <<218>> \o CountBytes(n, 2)
     ELSE <<219>> \o CountBytes(n, 4)) \o s

pack_array(n) ==
    IF n < 16 THEN <<144 + n>>
    ELSE IF n < 65536 THEN <<220>> \o CountBytes(n, 2)
    ELSE <<221>> \o CountBytes(n, 4)

pack_map(n) ==
    IF n < 16 THEN <<128 + n>>
    ELSE IF n < 65536 THEN <<222>> \o CountBytes(n, 2)
    ELSE <<223>> \o CountBytes(n, 4)

RECURSIVE Concat(_)
Concat(ss) == IF ss = <<>> THEN <<>> ELSE Head(ss) \o Concat(Tail(ss))

\* packJson over a nlohmann::json j: the bytes written to the stream
RECURSIVE packJson(_)
packJson(j) ==
    CASE j[1] = "null" -> <<192>>
      [] j[1] = "bool" -> IF j[2] THEN <<195>> ELSE <<194>>
      [] j[1] \in {"int", "uint"} -> pack_int64(j[2])
      [] j[1] = "str" -> pack_str(j[2])
      [] j[1] = "arr" ->
            pack_array(Len(j[2])) \o Concat([i \in 1..Len(j[2]) |-> packJson(j[2][i])])
      [] j[1] = "obj" ->
            pack_map(Len(j[2])) \o
            Concat([i \in 1..Len(j[2]) |-> pack_str(j[2][i][1]) \o packJson(j[2][i][2])])

(***************************************************************************)
(* hexToBytes                                                              *)
(***************************************************************************)
IsHexDigit(c) == (c >= 48 /\ c <= 57) \/ (c >= 97 /\ c <= 102) \/ (c >= 65 /\ c <= 70)
HexVal(c) == IF c <= 57 THEN c - 48 ELSE IF c >= 97 THEN c - 87 ELSE c - 55
IsSpace(c) == c = 32 \/ (c >= 9 /\ c <= 13)

\* static_cast<uint8_t>(std::stoul(two characters, nullptr, 16)); -1 when stoul
\* throws std::invalid_argument (no conversion could be performed)
stoul16(c1, c2) ==
    IF IsHexDigit(c1)
    THEN IF IsHexDigit(c2) THEN 16 * HexVal(c1) + HexVal(c2) ELSE HexVal(c1)
    ELSE IF IsSpace(c1) \/ c1 = 43
         THEN IF IsHexDigit(c2) THEN HexVal(c2) ELSE -1
    ELSE IF c1 = 45
         THEN IF IsHexDigit(c2) THEN (256 - HexVal(c2)) % 256 ELSE -1
    ELSE -1

hexToBytes(hex) ==
    LET hex_str == IF Len(hex) >= 2 /\ hex[1] = 48 /\ hex[2] = 120
                   THEN SubSeq(hex, 3, Len(hex)) ELSE hex
        bytes == [i \in 1..(Len(hex_str) \div 2) |->
                    stoul16(hex_str[2 * i - 1], hex_str[2 * i])]
    IN  IF Len(hex_str) % 2 # 0
        THEN [ok |-> FALSE, err |-> "Hex string must have even length"]
        ELSE IF \E i \in 1..Len(bytes) : bytes[i] = -1
        THEN [ok |-> FALSE, err |-> "stoul"]
        ELSE [ok |-> TRUE, bytes |-> bytes]

(***************************************************************************)
(* actionHash                                                              *)
(***************************************************************************)
keccak256(data) == <<"keccak256", data>>

AddressLen == 20

\* actionHashData with the presence byte left out when no vault is given
actionHashData_noPresenceByte(action, vault_address, nonce, expires_after) ==
    LET withNonce == packJson(action) \o BigEndian8(nonce)
        addr == IF vault_address = None THEN [ok |-> TRUE, bytes |-> <<>>]
                ELSE hexToBytes(vault_address[2])
        withVault == IF vault_address = None THEN withNonce
                     ELSE withNonce \o <<1>> \o addr.bytes
    IN  IF ~addr.ok THEN addr
        ELSE IF vault_address # None /\ Len(addr.bytes) # AddressLen
        THEN [ok |-> FALSE, err |-> "Invalid vault address length"]
        ELSE IF expires_after # None
        THEN [ok |-> TRUE, bytes |-> withVault \o <<0>> \o BigEndian8(expires_after[2])]
        ELSE [ok |-> TRUE, bytes |-> withVault]


\* actionHashData without the check of the length of the address
actionHashData_anyLength(action, vault_address, nonce, expires_after) ==
    LET withNonce == packJson(action) \o BigEndian8(nonce)
        addr == IF vault_address = None THEN [ok |-> TRUE, bytes |-> <<>>]
                ELSE hexToBytes(vault_address[2])
        withVault == IF vault_address = None THEN withNonce \o <<0>>
                     ELSE withNonce \o <<1>> \o addr.bytes
    IN  IF ~addr.ok THEN addr
        ELSE IF expires_after # None
        THEN [ok |-> TRUE, bytes |-> withVault \o <<0>> \o BigEndian8(expires_after[2])]
        ELSE [ok |-> TRUE, bytes |-> withVault]

\* actionHashData that leaves the expiry out
actionHashData_noExpiry(action, vault_address, nonce, expires_after) ==
    LET withNonce == packJson(action) \o BigEndian8(nonce)
        addr == IF vault_address = None THEN [ok |-> TRUE, bytes |-> <<>>]
                ELSE hexToBytes(vault_address[2])
        withVault == IF vault_address = None THEN withNonce \o <<0>>
                     ELSE withNonce \o <<1>> \o addr.bytes
    IN  IF ~addr.ok THEN addr
        ELSE IF vault_address # None /\ Len(addr.bytes) # AddressLen
        THEN [ok |-> FALSE, err |-> "Invalid vault address length"]
        ELSE [ok |-> TRUE, bytes |-> withVault]

\* the byte vector `data` that actionHash builds, or the error it throws
actionHashData(action, vault_address, nonce, expires_after) ==
    LET msgpack_str == packJson(action)
        withNonce == msgpack_str \o BigEndian8(nonce)
        addr == IF vault_address = None THEN [ok |-> TRUE, bytes |-> <<>>]
                ELSE hexToBytes(vault_address[2])
        withVault == IF vault_address = None THEN withNonce \o <<0>>
                     ELSE withNonce \o <<1>> \o addr.bytes
    IN  IF ~addr.ok THEN addr
        ELSE IF vault_address # None /\ Len(addr.bytes) # AddressLen
        THEN [ok |-> FALSE, err |-> "Invalid vault address length"]
        ELSE IF expires_after # None
        THEN [ok |-> TRUE, bytes |-> withVault \o <<0>> \o BigEndian8(expires_after[2])]
        ELSE [ok |-> TRUE, bytes |-> withVault]

\* actionHash as a caller reaches it: the caller's tree becomes the
\* const nlohmann::json& parameter, which is encoded, framed and hashed
actionHash(tree, vault_address, nonce, expires_after) ==
    LET d == actionHashData(ToJson(tree), vault_address, nonce, expires_after)
    IN  IF d.ok THEN [ok |-> TRUE, data |-> d.bytes, digest |-> keccak256(d.bytes)]
        ELSE [ok |-> FALSE, err |-> d.err]

(***************************************************************************)
(* Big numbers and the curve.  secp256k1 (y^2 = x^3 + 7 over F_p, prime    *)
(* order n < p, p = 3 mod 4) is scaled to 12 bits: p and order below, and  *)
(* HashLen bytes in place of the 32 of a scalar, a digest or an HMAC.      *)
(***************************************************************************)
p == 3571
order == 3469
G == <<4, 1706>>
HashLen == 2

Infinity == <<>>

\* BN_bin2bn: the number a big-endian byte vector holds
RECURSIVE BN_bin2bn(_)
BN_bin2bn(bytes) ==
    IF bytes = <<>> THEN 0
    ELSE 256 * BN_bin2bn(SubSeq(bytes, 1, Len(bytes) - 1)) + bytes[Len(bytes)]

\* BN_bn2binpad: x as n big-endian bytes
BN_bn2binpad(x, n) == [j \in 1..n |-> (x \div (256 ^ (n - j))) % 256]

RECURSIVE BN_num_bytes(_)
BN_num_bytes(x) == IF x = 0 THEN 0 ELSE 1 + BN_num_bytes(x \div 256)

\* square and multiply over <<base, exponent, modulus, product so far>>
ModExpAcc[a \in Nat \X Nat \X Nat \X Nat] ==
    IF a[2] = 0 THEN a[4]
    ELSE ModExpAcc[<<(a[1] * a[1]) % a[3], a[2] \div 2, a[3],
                     IF a[2] % 2 = 1 THEN (a[4] * a[1]) % a[3] ELSE a[4]>>]

ModExp(b, e, m) == ModExpAcc[<<b % m, e, m, 1>>]

\* BN_mod_inverse for a prime modulus; it fails on 0 and the result, a fresh
\* BN_new(), stays 0
BN_mod_inverse(a, m) == IF a % m = 0 THEN 0 ELSE ModExp(a % m, m - 2, m)

\* BN_mod_sqrt for p = 3 mod 4: the candidate root and whether it is one
BN_mod_sqrt(a) ==
    LET y == ModExp(a % p, (p + 1) \div 4, p)
    IN  [y |-> y, ok |-> (y * y) % p = a % p]

EC_POINT_invert(A) == IF A = Infinity THEN A ELSE <<A[1], (p - A[2]) % p>>

EC_POINT_add(A, B) ==
    IF A = Infinity THEN B
    ELSE IF B = Infinity THEN A
    ELSE IF A[1] = B[1] /\ (A[2] + B[2]) % p = 0 THEN Infinity
    ELSE LET l == IF A[1] = B[1]
                  THEN (((((3 * A[1]) % p) * A[1]) % p) * BN_mod_inverse(2 * A[2], p)) % p
                  ELSE (((B[2] - A[2]) % p) * BN_mod_inverse((B[1] - A[1]) % p, p)) % p
             x3 == (l * l - A[1] - B[1]) % p
         IN  <<x3, (l * ((A[1] - x3) % p) - A[2]) % p>>

\* Scalar multiplication works on Jacobian coordinates <<X, Y, Z>>, the point
\* (X / Z^2, Y / Z^3), with Z = 0 for the point at infinity.
JInfinity == <<1, 1, 0>>

JDouble(P) ==
    LET Y2 == (P[2] * P[2]) % p
        S == (((4 * P[1]) % p) * Y2) % p
        M == (((3 * P[1]) % p) * P[1]) % p
        X3 == (M * M - 2 * S) % p
    IN  <<X3, (M * ((S - X3) % p) - ((8 * Y2) % p) * Y2) % p, (((2 * P[2]) % p) * P[3]) % p>>

\* P + A for P # infinity in Jacobian and A # infinity in affine coordinates
JAddAffine(P, A) ==
    IF P[3] = 0 THEN <<A[1], A[2], 1>> ELSE
    LET Z2 == (P[3] * P[3]) % p
        H == (A[1] * Z2 - P[1]) % p
        R == (((A[2] * Z2) % p) * P[3] - P[2]) % p
        H2 == (H * H) % p
        H3 == (H2 * H) % p
        V == (P[1] * H2) % p
        X3 == (R * R - H3 - 2 * V) % p
    IN  IF H = 0 THEN (IF R = 0 THEN JDouble(P) ELSE JInfinity)
        ELSE <<X3, (R * ((V - X3) % p) - ((P[2] * H3) % p)) % p, (H * P[3]) % p>>

\* 2h + A when bit = 1, 2h otherwise
JStep(h, A, bit) ==
    IF h[3] = 0 THEN (IF bit = 1 THEN <<A[1], A[2], 1>> ELSE h)
    ELSE IF bit = 1 THEN JAddAffine(JDouble(h), A)
    ELSE JDouble(h)

\* bit i of the scalar k
Bit(k, i) == (k \div (2 ^ i)) % 2

\* the bits of a scalar below order
ScalarBits == 12

\* double and add over <<bit index, scalar, point, sum so far>>, the most
\* significant bit first
Ladder[a \in Int \X Nat \X Seq(Nat) \X Seq(Nat)] ==
    IF a[1] < 0 THEN a[4]
    ELSE Ladder[<<a[1] - 1, a[2], a[3], JStep(a[4], a[3], Bit(a[2], a[1]))>>]

JMul(k, A) == Ladder[<<ScalarBits - 1, k, A, JInfinity>>]

Scaled(P, zi) == <<(((P[1] * zi) % p) * zi) % p, (((((P[2] * zi) % p) * zi) % p) * zi) % p>>

ToAffine(P) ==
    IF P[3] = 0 THEN Infinity ELSE Scaled(P, BN_mod_inverse(P[3], p))

\* EC_POINT_mul with one scalar: k times the point A.  Every point of the
\* group has the prime order, so the scalar counts modulo order.
EC_POINT_mul(k, A) ==
    IF A = Infinity THEN Infinity ELSE ToAffine(JMul(k % order, A))

(***************************************************************************)
(* bnToHex                                                                 *)
(***************************************************************************)
HexChar(d) == IF d < 10 THEN 48 + d ELSE 87 + d

\* the index of the first byte that the skip of leading zeros keeps
RECURSIVE SkipZeros(_, _)
SkipZeros(bytes, start) ==
    IF start < Len(bytes) /\ bytes[start] = 0 THEN SkipZeros(bytes, start + 1)
    ELSE start

bnToHex(bn, min_bytes) ==
    LET num_bytes == BN_num_bytes(bn)
        size == IF num_bytes > min_bytes THEN num_bytes ELSE min_bytes
        bytes == BN_bn2binpad(bn, size)
        start == SkipZeros(bytes, 1)
        kept == SubSeq(bytes, start, size)
    IN  [i \in 1..(2 * Len(kept)) |->
            HexChar(IF i % 2 = 1 THEN kept[(i + 1) \div 2] \div 16
                    ELSE kept[i \div 2] % 16)]

(***************************************************************************)
(* generateDeterministicK: the RFC 6979 chain.  HMAC-SHA-256 is modelled   *)
(* by a keyed mixing function with a HashLen-byte output below HmacRange.  *)
(***************************************************************************)
HmacRange == 4093

\* the bytes mixed one after the other: <<bytes, index of the next, mix so far>>
Mix[a \in Seq(Nat) \X Nat \X Nat] ==
    IF a[2] > Len(a[1]) THEN a[3]
    ELSE Mix[<<a[1], a[2] + 1, (a[3] * 251 + a[1][a[2]] + 1) % HmacRange>>]

HMAC(K, data) == BN_bn2binpad(Mix[<<K \o data \o K, 1, 0>>], HashLen)

\* a V that outlives the call: whatever the call before left in it
InitialV_carried ==
    IF signCall.op = "signHash" THEN Rep(2, HashLen) ELSE Rep(1, HashLen)

\* Step c: V = 0x01 0x01 ... 0x01
InitialV == Rep(1, HashLen)

\* a candidate that is zero or not below the order, which is everything
\* but a nonce
Rejected_zeroOnly(k) == k = 0

\* if (BN_is_zero(k) || BN_cmp(k, order) >= 0)
Rejected(k) == k = 0 \/ k >= order

\* Step h3 over <<K, V>>: the first candidate in [1, order - 1]
GenerateLoop[a \in Seq(Nat) \X Seq(Nat)] ==
    LET T == HMAC(a[1], a[2])
        k == BN_bin2bn(T)
    IN  IF Rejected(k)
        THEN LET K2 == HMAC(a[1], T \o <<0>>)
             IN  GenerateLoop[<<K2, HMAC(K2, T)>>]
        ELSE k

\* Steps c to h: the K and V that the loop of step h3 starts from
SeedKV(priv_key, hash) ==
    LET priv_bytes == BN_bn2binpad(priv_key, HashLen)
        hash_bytes == IF Len(hash) > HashLen THEN SubSeq(hash, 1, HashLen)
                      ELSE Rep(0, HashLen - Len(hash)) \o hash
        K0 == Rep(0, HashLen)
        K1 == HMAC(K0, InitialV \o <<0>> \o priv_bytes \o hash_bytes)
        V1 == HMAC(K1, InitialV)
        K2 == HMAC(K1, V1 \o <<1>> \o priv_bytes \o hash_bytes)
        V2 == HMAC(K2, V1)
    IN  <<K2, V2>>

generateDeterministicK(priv_key, hash) == GenerateLoop[SeedKV(priv_key, hash)]

(***************************************************************************)
(* calculateRecoveryId and signHash                                        *)
(***************************************************************************)
NoPoint == <<"rejected">>

\* one round of the loop of calculateRecoveryId: the point Q recovered for a
\* recovery_id.  When x = r is the abscissa of no point of the curve, OpenSSL
\* rejects R and what is computed from it is not the public key.
RecoveredQ(hash, r, s, recovery_id) ==
    LET x == r
        x2 == (x * x) % p
        y_squared == (((x2 * x) % p) + 7) % p
        root == BN_mod_sqrt(y_squared)
        y == IF root.y % 2 # recovery_id THEN p - root.y ELSE root.y
        R == <<x, y>>
        r_inv == BN_mod_inverse(r, order)
        e == BN_bin2bn(hash)
        sR == EC_POINT_mul(s, R)
        eG == EC_POINT_mul(e, G)
    IN  IF ~root.ok THEN NoPoint
        ELSE EC_POINT_mul(r_inv, EC_POINT_add(sR, EC_POINT_invert(eG)))

calculateRecoveryId(ec_key, hash, r, s) ==
    IF RecoveredQ(hash, r, s, 0) = ec_key.pub THEN 0
    ELSE IF RecoveredQ(hash, r, s, 1) = ec_key.pub THEN 1
    ELSE 0      \* Default to 0 if recovery fails

\* the s of signHash without the move to the lower half
LowS_off(s) == s

\* if (BN_cmp(s, half_order) > 0) BN_sub(s, order, s)
LowS(s) == IF s > order \div 2 THEN order - s ELSE s

Prefix0x(hex) == <<48, 120>> \o hex

signHash(ec_key, hash) ==
    IF Len(hash) # HashLen THEN [ok |-> FALSE, err |-> "Hash must be 32 bytes"]
    ELSE
    LET priv_key == ec_key.priv
        k == generateDeterministicK(priv_key, hash)
        kG == EC_POINT_mul(k, G)
        r == kG[1] % order
        k_inv == BN_mod_inverse(k, order)
        e == BN_bin2bn(hash)
        tmp == (e + ((r * priv_key) % order)) % order
        s == LowS((k_inv * tmp) % order)
        recovery_id == calculateRecoveryId(ec_key, hash, r, s)
    IN  [ok |-> TRUE,
         r |-> Prefix0x(bnToHex(r, HashLen)),
         s |-> Prefix0x(bnToHex(s, HashLen)),
         v |-> recovery_id + 27]

(***************************************************************************)
(* The callers of actionHash: a direct call, and the Exchange operations   *)
(* that build an action and sign it with signL1Action                      *)
(***************************************************************************)
MaxCancels == 1

Timestamp == <<0, 395, 53221, 26624>>      \* 1700000000000 ms
ValidVault == <<48, 120>> \o Rep(49, 40)    \* "0x" and "11" twenty times
ShortVault == <<48, 120, 49, 50, 51, 52>>   \* "0x1234"
LongVault == <<48, 120>> \o Rep(49, 42)     \* 21 bytes
OddVault == <<48, 120>> \o Rep(49, 39)      \* 39 digits

Assets == {0, 1}
Oids == {123}
Leverages == {5, 300}

cancel_obj(asset, oid) == JObj(<< <<S_a, JInt(I64(asset))>>, <<S_o, JInt(I64(oid))>> >>)

\* the ordered_json action of Exchange::bulkCancel, keys in insertion order
cancelAction(cancels) ==
    JObj(<< <<S_type, JStr(S_cancel)>>,
            <<S_cancels, JArr([i \in 1..Len(cancels) |->
                                 cancel_obj(cancels[i][1], cancels[i][2])])>> >>)

\* the ordered_json action of Exchange::updateLeverage
leverageAction(asset, is_cross, leverage) ==
    JObj(<< <<S_type, JStr(S_updateLeverage)>>,
            <<S_asset, JInt(I64(asset))>>,
            <<S_isCross, JBool(is_cross)>>,
            <<S_leverage, JInt(I64(leverage))>> >>)

\* trees a caller of actionHash builds and hands over
CallerTrees ==
    { cancelAction(<< <<0, 123>> >>),
      JObj(<< <<S_cancels, JArr(<<cancel_obj(0, 123)>>)>>, <<S_type, JStr(S_cancel)>> >>),
      JObj(<< <<S_type, JStr(S_cancel)>>,
              <<S_cancels, JArr(<<JObj(<< <<S_o, JInt(I64(123))>>,
                                          <<S_a, JInt(I64(0))>> >>)>>)>> >>),
      JObj(<< <<S_o, JArr(<<JNull, JBool(TRUE), JBool(FALSE), JInt(I64(-1)),
                            JInt(I64(-33)), JInt(I64(-129)), JInt(I64(-40000)),
                            JInt(<<65535, 65534, 0, 0>>), JInt(I64(127)),
                            JInt(I64(200)), JUint(I64(70000)), JInt(Timestamp),
                            JUint(<<32768, 0, 0, 0>>), JUint(<<65535, 65535, 65535, 65535>>),
                            JStr(Rep(97, 32))>>)>>,
              <<S_a, JObj(<<>>)>> >>),
      JArr(<<>>) }

VaultArgs == {None, Some(ValidVault), Some(ShortVault), Some(LongVault), Some(OddVault)}
Nonces == {Timestamp, I64(-2)}
ExpiryArgs == {None, Some(I64(258))}

HashRecord(op, tree, vault, nonce, expires) ==
    [op |-> op, action |-> tree, vault |-> vault, nonce |-> nonce,
     expires |-> expires, out |-> actionHash(tree, vault, nonce, expires)]

NoCall == [op |-> "none"]

\* a call that ended in a throw
Failed(err) == [ok |-> FALSE, err |-> err]

\* no Wallet constructed, nothing signed
NoWallet ==
    /\ ec_key_ = None
    /\ signCall = NoCall
    /\ watch = [phase |-> 0, first |-> NoCall]

\* no signHash call running
NoThreads == calls = <<>>

\* no EC_KEY allocated, no Wallet constructed on it
NoOwners == heap = <<>> /\ wallets = <<>>

\* no nonce being generated step by step
NoLoop == loop = NoCall

MAINNET_API_URL == "https://api.hyperliquid.xyz"
TESTNET_API_URL == "https://api.hyperliquid-testnet.xyz"

\* nothing posted to /exchange
NoPost == posted = NoCall /\ base_url_ = MAINNET_API_URL

\* an Info with nothing registered
NoInfo ==
    /\ name_to_coin_ = <<>>
    /\ coin_to_asset_ = <<>>
    /\ asset_to_sz_decimals_ = <<>>
    /\ infoCall = NoCall

NoExt == NoThreads /\ NoOwners /\ NoLoop /\ NoPost /\ NoInfo

\* no typed data encoded, no action signed
NoTyped ==
    /\ typedCall = NoCall
    /\ actionCall = <<NoCall, NoCall>>

InitEncode ==
    /\ vault_address_ \in {<<>>, ValidVault}
    /\ expires_after_ = None
    /\ hashCall = NoCall
    /\ NoWallet
    /\ keyCall = NoCall
    /\ NoTyped
    /\ NoExt

\* a direct call of actionHash
ActionHashCall ==
    \E tree \in CallerTrees, vault \in VaultArgs, nonce \in Nonces, expires \in ExpiryArgs :
        /\ hashCall' = HashRecord("actionHash", tree, vault, nonce, expires)
        /\ UNCHANGED <<vault_address_, expires_after_, signVars, keyVars, typedVars, extVars>>

setExpiresAfter ==
    \E expires \in ExpiryArgs :
        /\ expires_after_' = expires
        /\ UNCHANGED <<vault_address_, hashCall, signVars, keyVars, typedVars, extVars>>

vault_opt == IF vault_address_ = <<>> THEN None ELSE Some(vault_address_)

\* Exchange::bulkCancel up to the action hash of signL1Action
bulkCancel ==
    \E n \in 1..MaxCancels :
      \E cancels \in [1..n -> Assets \X Oids] :
        /\ hashCall' = HashRecord("bulkCancel", cancelAction(cancels), vault_opt,
                             Timestamp, expires_after_)
        /\ UNCHANGED <<vault_address_, expires_after_, signVars, keyVars, typedVars, extVars>>

\* Exchange::updateLeverage up to the action hash of signL1Action
updateLeverage ==
    \E asset \in Assets, is_cross \in BOOLEAN, leverage \in Leverages :
        /\ hashCall' = HashRecord("updateLeverage", leverageAction(asset, is_cross, leverage),
                             vault_opt, Timestamp, expires_after_)
        /\ UNCHANGED <<vault_address_, expires_after_, signVars, keyVars, typedVars, extVars>>

NextEncode == ActionHashCall \/ setExpiresAfter \/ bulkCancel \/ updateLeverage

SpecEncode == InitEncode /\ [][NextEncode]_vars

(***************************************************************************)
(* Claims about the encoder and the action hash                            *)
(***************************************************************************)
Hashed == hashCall.op # "none" /\ hashCall.out.ok

\* a msgpack reader that keeps the maps' keys in the order they were written
Leaf == <<"leaf", <<>>>>

ScalarLen(b) ==
    IF b \in {204, 208} THEN 2
    ELSE IF b \in {205, 209} THEN 3
    ELSE IF b \in {206, 210} THEN 5
    ELSE IF b \in {207, 211} THEN 9
    ELSE 1

StrAt(bytes) ==
    LET b == bytes[1]
        n == IF b = 217 THEN bytes[2] ELSE b - 160
        from == IF b = 217 THEN 3 ELSE 2
    IN  <<SubSeq(bytes, from, from + n - 1), SubSeq(bytes, from + n, Len(bytes))>>

RECURSIVE Unpack(_), UnpackSeq(_, _), UnpackMap(_, _)
Unpack(bytes) ==
    LET b == bytes[1] IN
    IF b >= 128 /\ b <= 143
    THEN LET r == UnpackMap(Tail(bytes), b - 128) IN << <<"obj", r[1]>>, r[2] >>
    ELSE IF b >= 144 /\ b <= 159
    THEN LET r == UnpackSeq(Tail(bytes), b - 144) IN << <<"arr", r[1]>>, r[2] >>
    ELSE IF (b >= 160 /\ b <= 191) \/ b = 217 THEN <<Leaf, StrAt(bytes)[2]>>
    ELSE <<Leaf, SubSeq(bytes, 1 + ScalarLen(b), Len(bytes))>>

UnpackSeq(bytes, n) ==
    IF n = 0 THEN << <<>>, bytes >>
    ELSE LET h == Unpack(bytes)
             t == UnpackSeq(h[2], n - 1)
         IN  << <<h[1]>> \o t[1], t[2] >>

UnpackMap(bytes, n) ==
    IF n = 0 THEN << <<>>, bytes >>
    ELSE LET k == StrAt(bytes)
             v == Unpack(k[2])
             t == UnpackMap(v[2], n - 1)
         IN  << << <<k[1], v[1]>> >> \o t[1], t[2] >>

\* the maps of a caller's tree with their keys in insertion order
RECURSIVE KeyTree(_)
KeyTree(v) ==
    IF v[1] = "obj"
    THEN <<"obj", [i \in 1..Len(v[2]) |-> <<v[2][i][1], KeyTree(v[2][i][2])>>]>>
    ELSE IF v[1] = "arr" THEN <<"arr", [i \in 1..Len(v[2]) |-> KeyTree(v[2][i])]>>
    ELSE Leaf

\* C1: the maps read back from the bytes actionHash encoded list their keys, at
\* every nesting level, in the order in which the caller inserted them.
C1_InsertionOrderKept ==
    Hashed => Unpack(hashCall.out.data)[1] = KeyTree(hashCall.action)

\* the same key/value pairs, whatever the order of the keys
RECURSIVE SamePairs(_, _)
SamePairs(t, u) ==
    IF t[1] # u[1] THEN FALSE
    ELSE IF t[1] = "obj"
    THEN /\ Len(t[2]) = Len(u[2])
         /\ \A i \in 1..Len(t[2]) : \E j \in 1..Len(u[2]) :
                t[2][i][1] = u[2][j][1] /\ SamePairs(t[2][i][2], u[2][j][2])
    ELSE IF t[1] = "arr"
    THEN /\ Len(t[2]) = Len(u[2])
         /\ \A i \in 1..Len(t[2]) : SamePairs(t[2][i], u[2][i])
    ELSE t = u

\* C2: two calls of actionHash with the same nonce, vault and expiry, on trees
\* that hold the same pairs in a different key order, return different digests.
C2_OrderSensitive ==
    [][(/\ Hashed
        /\ hashCall'.op # "none" /\ hashCall'.out.ok
        /\ hashCall'.nonce = hashCall.nonce
        /\ hashCall'.vault = hashCall.vault
        /\ hashCall'.expires = hashCall.expires
        /\ SamePairs(hashCall.action, hashCall'.action)
        /\ hashCall'.action # hashCall.action)
       => hashCall'.out.digest # hashCall.out.digest]_encVars

\* the 64-bit value whose big-endian bytes are d[from .. from + 7]
Limbs(d, from) == [k \in 1..4 |-> 256 * d[from + 2 * k - 2] + d[from + 2 * k - 1]]

\* the 20 bytes of a "0x" and 40 hex digits address
AddressBytes(a) == [i \in 1..20 |-> 16 * HexVal(a[2 * i + 1]) + HexVal(a[2 * i + 2])]

\* C3: the bytes hashed are encode(action), the nonce as 8 big-endian bytes, one
\* presence byte (0x00, or 0x01 and the 20 address bytes) and, only when an expiry
\* is given, 0x00 and the expiry as 8 big-endian bytes.
C3_Framing ==
    Hashed =>
      LET d == hashCall.out.data
          enc == packJson(ToJson(hashCall.action))
          L == Len(enc)
          V == IF hashCall.vault = None THEN 0 ELSE 20
          E == IF hashCall.expires = None THEN 0 ELSE 9
      IN  /\ Len(d) = L + 8 + 1 + V + E
          /\ SubSeq(d, 1, L) = enc
          /\ Limbs(d, L + 1) = hashCall.nonce
          /\ IF hashCall.vault = None THEN d[L + 9] = 0
             ELSE /\ d[L + 9] = 1
                  /\ SubSeq(d, L + 10, L + 29) = AddressBytes(hashCall.vault[2])
          /\ hashCall.expires # None =>
                /\ d[L + 9 + V + 1] = 0
                /\ Limbs(d, L + 9 + V + 2) = hashCall.expires[2]
          /\ hashCall.out.digest = keccak256(d)

C3_Witness ==
    /\ Hashed
    /\ hashCall.vault = Some(ValidVault)
    /\ hashCall.expires # None
    /\ hashCall.nonce = Timestamp

C3_WitnessBare ==
    Hashed /\ hashCall.vault = None /\ hashCall.expires = None

(***************************************************************************)
(* Key import: createKeyFromPrivate and Wallet::fromPrivateKey             *)
(***************************************************************************)
\* the number of hexadecimal digits that str starts with
RECURSIVE HexPrefixLen(_)
HexPrefixLen(str) ==
    IF str = <<>> \/ ~IsHexDigit(Head(str)) THEN 0
    ELSE 1 + HexPrefixLen(Tail(str))

RECURSIVE HexNum(_)
HexNum(digits) ==
    IF digits = <<>> THEN 0
    ELSE 16 * HexNum(SubSeq(digits, 1, Len(digits) - 1)) + HexVal(digits[Len(digits)])

\* BN_hex2bn: an optional '-', then the hexadecimal digits up to the first
\* character that is not one; ret = 0 when there is no digit
BN_hex2bn(a) ==
    LET neg == a # <<>> /\ Head(a) = 45
        body == IF neg THEN Tail(a) ELSE a
        i == HexPrefixLen(body)
        abs == HexNum(SubSeq(body, 1, i))
    IN  [ret |-> IF i = 0 THEN 0 ELSE i + (IF neg THEN 1 ELSE 0),
         bn |-> IF neg THEN 0 - abs ELSE abs]

IsOnCurve(A) ==
    (A[2] * A[2]) % p = (((((A[1] * A[1]) % p) * A[1]) % p) + 7) % p

\* EC_KEY_check_key: the public point is a point of the group other than
\* infinity, the private key is in [1, order - 1] and the two match
EC_KEY_check_key(priv_key, pub_key) ==
    /\ pub_key # Infinity
    /\ IsOnCurve(pub_key)
    /\ EC_POINT_mul(order, pub_key) = Infinity
    /\ priv_key >= 1
    /\ priv_key < order
    /\ EC_POINT_mul(priv_key, G) = pub_key

\* std::string::substr(pos, n): at most n characters from position pos
substr(str, pos, n) ==
    SubSeq(str, pos + 1, IF pos + n < Len(str) THEN pos + n ELSE Len(str))

createKeyFromPrivate(private_key_hex) ==
    LET key_hex == IF substr(private_key_hex, 0, 2) = <<48, 120>>
                   THEN SubSeq(private_key_hex, 3, Len(private_key_hex))
                   ELSE private_key_hex
        parsed == BN_hex2bn(key_hex)
        priv_bn == parsed.bn
        \* EC_POINT_mul reduces a scalar that is negative or longer than the order
        pub_key == EC_POINT_mul(priv_bn % order, G)
    IN  IF parsed.ret = 0 THEN [ok |-> FALSE, err |-> "Invalid private key hex"]
        ELSE IF ~EC_KEY_check_key(priv_bn, pub_key)
        THEN [ok |-> FALSE, err |-> "Invalid EC key"]
        ELSE [ok |-> TRUE, ec_key |-> [priv |-> priv_bn, pub |-> pub_key]]

\* "0x" and the hexadecimal digits of the last AddressLen bytes of the hash of
\* the two coordinates of the public key
deriveAddress(ec_key) ==
    <<"address", keccak256(BN_bn2binpad(ec_key.pub[1], HashLen)
                           \o BN_bn2binpad(ec_key.pub[2], HashLen))>>

Wallet_fromPrivateKey(private_key_hex) ==
    LET made == createKeyFromPrivate(private_key_hex)
    IN  IF made.ok
        THEN [ok |-> TRUE,
              wallet |-> [ec_key_ |-> made.ec_key, address_ |-> deriveAddress(made.ec_key)]]
        ELSE made

(***************************************************************************)
(* A Wallet signing digests: Wallet::signMessage.  The digests are scaled  *)
(* like the curve.  With the keys of WalletKeys (3, 1, order - 1) the      *)
(* digests up to MaxDigest take the signer through a candidate k rejected  *)
(* by the chain, s moved to the lower half or not, either parity of y,     *)
(* r or s with a leading zero byte and an abscissa of kG at or above the   *)
(* order; EdgeDigests adds r = 0 (106, 122) and s = 0 (1907, 4779).        *)
(***************************************************************************)
WalletKeys == {<<48, 120, 48, 48, 48, 51>>, <<49>>, <<48, 100, 56, 99>>}

MaxDigest == 19

EdgeDigests == {48, 106, 122, 1907, 4779, 65535}

SignedDigests == (0..MaxDigest) \cup EdgeDigests

\* digests of a wrong length as well
Hashes ==
    {BN_bn2binpad(e, HashLen) : e \in SignedDigests} \cup {<<>>, <<0, 0, 75>>}

\* the digest whose signatures watch follows through the calls
Watched == <<0, 4>>

InitSign ==
    /\ ec_key_ \in {Some(createKeyFromPrivate(h).ec_key) : h \in WalletKeys}
    /\ signCall = NoCall
    /\ watch = [phase |-> 0, first |-> NoCall]
    /\ vault_address_ = <<>>
    /\ expires_after_ = None
    /\ hashCall = NoCall
    /\ keyCall = NoCall
    /\ NoTyped
    /\ NoExt

\* watch.phase: 0 Watched not signed yet, 1 signed, 2 another digest signed
\* since, 3 Watched signed again after that; watch.first: its first signature
Follow(hash, out) ==
    IF hash = Watched
    THEN [phase |-> IF watch.phase = 0 THEN 1
                    ELSE IF watch.phase = 2 THEN 3 ELSE watch.phase,
          first |-> IF watch.phase = 0 THEN out ELSE watch.first]
    ELSE [watch EXCEPT !.phase = IF @ = 1 THEN 2 ELSE @]

signMessage ==
    \E message_hash \in Hashes :
        LET out == signHash(ec_key_[2], message_hash)
        IN  /\ signCall' = [op |-> "signHash", hash |-> message_hash, out |-> out]
            /\ watch' = Follow(message_hash, out)
            /\ UNCHANGED <<ec_key_, encVars, keyVars, typedVars, extVars>>

NextSign == signMessage

SpecSign == InitSign /\ [][NextSign]_vars

(***************************************************************************)
(* Importing keys: Wallet::fromPrivateKey on strings over KeyAlphabet      *)
(* ('-', '0', '1', 'A', 'f', 'g', 'x'), bare or behind "0x", and on        *)
(* EdgeKeys (order - 1, order, 0xffff, zeros, digits before a stray one).  *)
(***************************************************************************)
MaxKeyLen == 2

KeyAlphabet == {45, 48, 49, 65, 102, 103, 120}

EdgeKeys == {<<48, 100, 56, 99>>, <<48, 100, 56, 100>>, <<102, 102, 102, 102>>,
             <<48, 48, 48, 48>>, <<48, 48, 48, 51>>, <<49, 50, 122, 122>>}

KeyStrings ==
    LET bodies == UNION {[1..n -> KeyAlphabet] : n \in 0..MaxKeyLen} \cup EdgeKeys
    IN  bodies \cup {<<48, 120>> \o b : b \in bodies}

InitKey ==
    /\ keyCall = NoCall
    /\ NoWallet
    /\ vault_address_ = <<>>
    /\ expires_after_ = None
    /\ hashCall = NoCall
    /\ NoTyped
    /\ NoExt

fromPrivateKey ==
    \E private_key_hex \in KeyStrings :
        /\ keyCall' = [op |-> "fromPrivateKey", private_key_hex |-> private_key_hex,
                       out |-> Wallet_fromPrivateKey(private_key_hex)]
        /\ UNCHANGED <<encVars, signVars, typedVars, extVars>>

NextKey == fromPrivateKey

SpecKey == InitKey /\ [][NextKey]_vars

(***************************************************************************)
(***************************************************************************)
(* Step h3 of generateDeterministicK taken one iteration at a time, over a *)
(* hash backend that is HMAC-SHA-256 or a broken one whose every output is *)
(* 00..00 or ff..ff.                                                        *)
(***************************************************************************)
Backends == {"sha256", "zeros", "ones"}

\* HMAC(EVP_sha256(), K, ..) as the backend at hand computes it
HMAC_on(backend, K, data) ==
    IF backend = "sha256" THEN HMAC(K, data)
    ELSE IF backend = "zeros" THEN Rep(0, HashLen)
    ELSE Rep(255, HashLen)

InitNonce ==
    /\ loop = NoCall
    /\ NoThreads /\ NoOwners /\ NoPost /\ NoInfo
    /\ NoWallet
    /\ NoTyped
    /\ keyCall = NoCall
    /\ hashCall = NoCall
    /\ vault_address_ = <<>>
    /\ expires_after_ = None

\* lines 142-193: a call arrives at the loop with the K and V of steps c to h
enterLoop ==
    \E h \in WalletKeys, hash \in {x \in Hashes : Len(x) = HashLen}, backend \in Backends :
        LET priv_key == createKeyFromPrivate(h).ec_key.priv
            seed == IF backend = "sha256" THEN SeedKV(priv_key, hash)
                    ELSE <<HMAC_on(backend, <<>>, <<>>), HMAC_on(backend, <<>>, <<>>)>>
        IN  /\ loop.op \in {"none", "break"}
            /\ loop' = [op |-> "while", backend |-> backend, priv_key |-> priv_key,
                        hash |-> hash, K |-> seed[1], V |-> seed[2], k |-> 0]
            /\ UNCHANGED <<coreVars, threadVars, ownVars, postVars, infoVars>>

\* lines 198-200: V = HMAC_K(V), k = BN_bin2bn(V)
nextCandidate ==
    /\ loop.op = "while"
    /\ LET V == HMAC_on(loop.backend, loop.K, loop.V)
       IN  loop' = [loop EXCEPT !.op = "if", !.V = V, !.k = BN_bin2bn(V)]
    /\ UNCHANGED <<coreVars, threadVars, ownVars, postVars, infoVars>>

\* lines 203-211: the candidate is rejected, K and V are updated
updateKV ==
    /\ loop.op = "if"
    /\ Rejected(loop.k)
    /\ LET K == HMAC_on(loop.backend, loop.K, loop.V \o <<0>>)
       IN  loop' = [loop EXCEPT !.op = "while", !.K = K,
                                !.V = HMAC_on(loop.backend, K, loop.V)]
    /\ UNCHANGED <<coreVars, threadVars, ownVars, postVars, infoVars>>

\* lines 212-214: the candidate is the nonce
break ==
    /\ loop.op = "if"
    /\ ~Rejected(loop.k)
    /\ loop' = [loop EXCEPT !.op = "break"]
    /\ UNCHANGED <<coreVars, threadVars, ownVars, postVars, infoVars>>

NextNonce == enterLoop \/ nextCandidate \/ updateKV \/ break

SpecNonce == InitNonce /\ [][NextNonce]_vars

\* a call that is in the loop takes its next step
FairNonce ==
    SpecNonce /\ WF_vars(nextCandidate) /\ WF_vars(updateKV) /\ WF_vars(break)

(***************************************************************************)
(* Wallet objects and the EC_KEY objects they point to.  heap holds every  *)
(* EC_KEY that createKeyFromPrivate allocated, with the number of times    *)
(* EC_KEY_free ran on it; wallets holds every Wallet object constructed,   *)
(* by fromPrivateKey or by the copy constructor that the class leaves      *)
(* implicitly declared, its ec_key_ being an index into heap.              *)
(***************************************************************************)
MaxWallets == 3

InitOwn ==
    /\ NoOwners
    /\ NoThreads /\ NoLoop /\ NoPost /\ NoInfo
    /\ NoWallet
    /\ NoTyped
    /\ keyCall = NoCall
    /\ hashCall = NoCall
    /\ vault_address_ = <<>>
    /\ expires_after_ = None

\* Wallet::fromPrivateKey: new Wallet(createKeyFromPrivate(private_key_hex))
Wallet_new ==
    \E private_key_hex \in WalletKeys :
        LET made == Wallet_fromPrivateKey(private_key_hex)
        IN  /\ Len(wallets) < MaxWallets
            /\ made.ok
            /\ heap' = Append(heap, [ec_key |-> made.wallet.ec_key_, freed |-> 0,
                                     used_freed |-> FALSE])
            /\ wallets' = Append(wallets, [ec_key_ |-> Len(heap) + 1,
                                           address_ |-> made.wallet.address_,
                                           copied |-> FALSE, destroyed |-> FALSE])
            /\ UNCHANGED <<coreVars, threadVars, nonceVars, postVars, infoVars>>

\* Wallet(const Wallet&), implicitly declared: ec_key_ and address_ are copied
Wallet_copy ==
    \E w \in 1..Len(wallets) :
        /\ Len(wallets) < MaxWallets
        /\ ~wallets[w].destroyed
        /\ wallets' = Append(wallets, [wallets[w] EXCEPT !.copied = TRUE])
        /\ UNCHANGED <<heap, coreVars, threadVars, nonceVars, postVars, infoVars>>

\* what signHash does on an EC_KEY that was freed: it reads freed memory,
\* which may still hold the key or may not
FreedReads(ec_key, hash) ==
    {signHash(ec_key, hash), [ok |-> FALSE, err |-> "Failed to get private key"],
     [ok |-> FALSE, err |-> "SIGSEGV"]}

\* Wallet::signMessage of a Wallet that has not been destroyed
Wallet_signMessageCall ==
    \E w \in 1..Len(wallets) :
        LET key == heap[wallets[w].ec_key_]
        IN  /\ ~wallets[w].destroyed
            /\ \E out \in IF key.freed = 0 THEN {signHash(key.ec_key, Watched)}
                          ELSE FreedReads(key.ec_key, Watched) :
                    signCall' = [op |-> "signHash", hash |-> Watched, out |-> out]
            /\ heap' = [heap EXCEPT ![wallets[w].ec_key_].used_freed = @ \/ key.freed > 0]
            /\ UNCHANGED <<wallets, ec_key_, watch, encVars, keyVars, typedVars,
                           threadVars, nonceVars, postVars, infoVars>>

\* Wallet::~Wallet: crypto::freeKey(ec_key_)
Wallet_destroy ==
    \E w \in 1..Len(wallets) :
        /\ ~wallets[w].destroyed
        /\ wallets' = [wallets EXCEPT ![w].destroyed = TRUE]
        /\ heap' = [heap EXCEPT ![wallets[w].ec_key_].freed = @ + 1]
        /\ UNCHANGED <<coreVars, threadVars, nonceVars, postVars, infoVars>>

NextOwn == Wallet_new \/ Wallet_copy \/ Wallet_signMessageCall \/ Wallet_destroy

SpecOwn == InitOwn /\ [][NextOwn]_vars

(***************************************************************************)
(* Threads that call Wallet::signMessage on one Wallet, each statement     *)
(* group of signHash a step of its own.  calls.at and calls.hash are the   *)
(* position and the argument of every thread, calls.frame holds the local  *)
(* variables k, r and s of the calls, calls.out what a call returned.      *)
(***************************************************************************)
Threads == {1, 2}

ThreadDigests == {BN_bn2binpad(e, HashLen) : e \in {4, 11, 48}}

\* the stack frame that holds the locals of the call of a thread
Frame_static(t) == 1

Frame(t) == t

InitThreads ==
    /\ \E private_key_hex \in WalletKeys :
        LET made == Wallet_fromPrivateKey(private_key_hex)
        IN  /\ heap = <<[ec_key |-> made.wallet.ec_key_, freed |-> 0, used_freed |-> FALSE]>>
            /\ wallets = <<[ec_key_ |-> 1, address_ |-> made.wallet.address_,
                            copied |-> FALSE, destroyed |-> FALSE]>>
    /\ calls = [at |-> [t \in Threads |-> "idle"],
                hash |-> [t \in Threads |-> <<>>],
                frame |-> [f \in Threads |-> [k |-> 0, r |-> 0, s |-> 0]],
                out |-> [t \in Threads |-> NoCall]]
    /\ NoLoop /\ NoPost /\ NoInfo
    /\ NoWallet
    /\ NoTyped
    /\ keyCall = NoCall
    /\ hashCall = NoCall
    /\ vault_address_ = <<>>
    /\ expires_after_ = None

\* the EC_KEY behind the Wallet that the threads share
SharedKey == heap[wallets[1].ec_key_].ec_key

\* lines 320-331: signMessage calls signHash, which reads the private key
signHash_enter(t) ==
    \E message_hash \in ThreadDigests :
        /\ calls.at[t] \in {"idle", "return"}
        /\ calls' = [calls EXCEPT !.at[t] = "k", !.hash[t] = message_hash,
                                  !.out[t] = NoCall]

\* line 334: k = generateDeterministicK(priv_key, hash, group)
signHash_k(t) ==
    /\ calls.at[t] = "k"
    /\ calls' = [calls EXCEPT !.at[t] = "rs",
                              !.frame[Frame(t)].k =
                                  generateDeterministicK(SharedKey.priv, calls.hash[t])]

\* lines 337-364: r = (k * G).x mod order, s = k^-1 * (hash + r * priv_key)
\* mod order, moved to the lower half
signHash_rs(t) ==
    /\ calls.at[t] = "rs"
    /\ LET k == calls.frame[Frame(t)].k
           r == EC_POINT_mul(k, G)[1] % order
           tmp == (BN_bin2bn(calls.hash[t]) + ((r * SharedKey.priv) % order)) % order
       IN  calls' = [calls EXCEPT !.at[t] = "v",
                                  !.frame[Frame(t)].r = r,
                                  !.frame[Frame(t)].s =
                                      LowS((BN_mod_inverse(k, order) * tmp) % order)]

\* lines 367-397: the strings of r and s, the recovery id, the return
signHash_v(t) ==
    /\ calls.at[t] = "v"
    /\ LET r == calls.frame[Frame(t)].r
           s == calls.frame[Frame(t)].s
       IN  calls' = [calls EXCEPT
                !.at[t] = "return",
                !.out[t] = [ok |-> TRUE,
                            r |-> Prefix0x(bnToHex(r, HashLen)),
                            s |-> Prefix0x(bnToHex(s, HashLen)),
                            v |-> calculateRecoveryId(SharedKey, calls.hash[t], r, s) + 27]]

signHash_step ==
    \E t \in Threads :
        /\ signHash_enter(t) \/ signHash_k(t) \/ signHash_rs(t) \/ signHash_v(t)
        /\ UNCHANGED <<coreVars, ownVars, nonceVars, postVars, infoVars>>

NextThreads == signHash_step

SpecThreads == InitThreads /\ [][NextThreads]_vars

(***************************************************************************)
(* Info: the tables behind nameToAsset (info.cpp)                          *)
(***************************************************************************)

\* operator[](key) = value of an unordered_map
Put(map, key, value) ==
    [k \in DOMAIN map \cup {key} |-> IF k = key THEN value ELSE map[k]]

\* the three tables of an Info
Tables == [name_to_coin_ |-> name_to_coin_,
           coin_to_asset_ |-> coin_to_asset_,
           asset_to_sz_decimals_ |-> asset_to_sz_decimals_]

\* setPerpMeta: the loop over meta.universe, from position i (from 1)
RECURSIVE setPerpMetaFrom(_, _, _, _)
setPerpMetaFrom(tables, meta, offset, i) ==
    IF i > Len(meta.universe) THEN tables
    ELSE LET asset == meta.universe[i]
             asset_id == offset + (i - 1)
         IN  setPerpMetaFrom(
                 [name_to_coin_ |-> Put(tables.name_to_coin_, asset.name, asset.name),
                  coin_to_asset_ |-> Put(tables.coin_to_asset_, asset.name, asset_id),
                  asset_to_sz_decimals_ |->
                      Put(tables.asset_to_sz_decimals_, asset_id, asset.sz_decimals)],
                 meta, offset, i + 1)

setPerpMeta(tables, meta, offset) == setPerpMetaFrom(tables, meta, offset, 1)

\* base_token.name + "/" + quote_token.name; token indices count from 0
pair_format(spot_meta, pair) ==
    spot_meta.tokens[pair.tokens[1] + 1].name \o "/"
        \o spot_meta.tokens[pair.tokens[2] + 1].name

\* the alias is written only when name_to_coin_.find(pair_format) finds nothing
aliasTarget_lastWins(names, alias, pair) == pair.name

aliasTarget(names, alias, pair) ==
    IF alias \in DOMAIN names THEN names[alias] ELSE pair.name

\* registerSpotMeta: the loop over spot_meta.universe, from position i
RECURSIVE registerSpotMetaFrom(_, _, _)
registerSpotMetaFrom(tables, spot_meta, i) ==
    IF i > Len(spot_meta.universe) THEN tables
    ELSE LET pair == spot_meta.universe[i]
             asset == 10000 + pair.index
             base_token == spot_meta.tokens[pair.tokens[1] + 1]
             named == Put(tables.name_to_coin_, pair.name, pair.name)
             alias == pair_format(spot_meta, pair)
         IN  registerSpotMetaFrom(
                 [name_to_coin_ |-> Put(named, alias, aliasTarget(named, alias, pair)),
                  coin_to_asset_ |-> Put(tables.coin_to_asset_, pair.name, asset),
                  asset_to_sz_decimals_ |->
                      Put(tables.asset_to_sz_decimals_, asset, base_token.sz_decimals)],
                 spot_meta, i + 1)

registerSpotMeta(tables, spot_meta) == registerSpotMetaFrom(tables, spot_meta, 1)

nameToAsset(tables, name) ==
    IF name \notin DOMAIN tables.name_to_coin_ THEN Failed("Unknown asset name")
    ELSE LET coin == tables.name_to_coin_[name]
         IN  IF coin \notin DOMAIN tables.coin_to_asset_ THEN Failed("Unknown coin")
             ELSE [ok |-> TRUE, asset |-> tables.coin_to_asset_[coin]]

MaxUniverse == 2

\* well-formed metadata: a spot pair names two tokens of the token list and is
\* called "@index" or, as PURR/USDC is, by its base and quote
SpotTokens ==
    << [name |-> "USDC", sz_decimals |-> 8],
       [name |-> "PURR", sz_decimals |-> 0],
       [name |-> "HFUN", sz_decimals |-> 2] >>

SpotPairs ==
    { [name |-> "PURR/USDC", tokens |-> <<1, 0>>, index |-> 0] }
        \cup { [name |-> "@1", tokens |-> t, index |-> 1] : t \in {<<1, 0>>, <<2, 0>>} }
        \cup { [name |-> "@2", tokens |-> t, index |-> 2] : t \in {<<1, 0>>, <<2, 0>>} }

\* the universes of up to MaxUniverse assets, no name twice
Universes(assets) ==
    { u \in UNION { [1..n -> assets] : n \in 0..MaxUniverse } :
        \A i, j \in DOMAIN u : u[i].name = u[j].name => i = j }

SpotMetas == { [universe |-> u, tokens |-> SpotTokens] : u \in Universes(SpotPairs) }

PerpAssets == { [name |-> "BTC", sz_decimals |-> 5] }

PerpMetas == { [universe |-> u] : u \in Universes(PerpAssets) }

Offsets == {0, 110000}

AskedNames == {"BTC", "@1", "@2", "PURR/USDC", "HFUN/USDC", "DOGE"}

InitInfo ==
    /\ vault_address_ = <<>> /\ expires_after_ = None /\ hashCall = NoCall
    /\ NoWallet /\ keyCall = NoCall /\ NoTyped
    /\ NoThreads /\ NoOwners /\ NoLoop /\ NoPost /\ NoInfo

SetTables(tables) ==
    /\ name_to_coin_' = tables.name_to_coin_
    /\ coin_to_asset_' = tables.coin_to_asset_
    /\ asset_to_sz_decimals_' = tables.asset_to_sz_decimals_

registerPerpMetaCall ==
    \E meta \in PerpMetas, offset \in Offsets :
        /\ SetTables(setPerpMeta(Tables, meta, offset))
        /\ infoCall' = [op |-> "registerPerpMeta"]
        /\ UNCHANGED <<coreVars, threadVars, ownVars, nonceVars, postVars>>

registerSpotMetaCall ==
    \E spot_meta \in SpotMetas :
        /\ SetTables(registerSpotMeta(Tables, spot_meta))
        /\ infoCall' = [op |-> "registerSpotMeta"]
        /\ UNCHANGED <<coreVars, threadVars, ownVars, nonceVars, postVars>>

nameToAssetCall ==
    \E name \in AskedNames :
        /\ infoCall' = [op |-> "nameToAsset", name |-> name,
                        out |-> nameToAsset(Tables, name)]
        /\ UNCHANGED <<name_to_coin_, coin_to_asset_, asset_to_sz_decimals_>>
        /\ UNCHANGED <<coreVars, threadVars, ownVars, nonceVars, postVars>>

NextInfo == registerPerpMetaCall \/ registerSpotMetaCall \/ nameToAssetCall

SpecInfo == InitInfo /\ [][NextInfo]_vars

(***************************************************************************)
(* Properties of the signer                                                *)
(***************************************************************************)
Signed == signCall.op = "signHash" /\ signCall.out.ok

\* the numbers that the returned strings denote
sigR == HexNum(SubSeq(signCall.out.r, 3, Len(signCall.out.r)))
sigS == HexNum(SubSeq(signCall.out.s, 3, Len(signCall.out.s)))

\* the nonce point of the call and s as it is before the lower half is taken
NoncePoint == EC_POINT_mul(generateDeterministicK(ec_key_[2].priv, signCall.hash), G)
RawS ==
    LET k == generateDeterministicK(ec_key_[2].priv, signCall.hash)
        e == BN_bin2bn(signCall.hash)
    IN  (BN_mod_inverse(k, order)
            * ((e + (((NoncePoint[1] % order) * ec_key_[2].priv) % order)) % order)) % order

Recovers(recovery_id) ==
    RecoveredQ(signCall.hash, sigR, sigS, recovery_id) = ec_key_[2].pub

\* C4: every signature signHash returns has v in {27, 28}, and the recovery
\* Q = r^-1 (sR - eG), with R the point of abscissa r and of the parity v - 27,
\* gives the public key of the signer.
C4_RecoversSigner ==
    Signed => signCall.out.v \in {27, 28} /\ Recovers(signCall.out.v - 27)

\* C5: every signature signHash returns has s <= order / 2, and the recovery
\* id is the one of the s that is returned: whenever a parity recovers the
\* signer from (r, s), v is such a parity.
C5_LowS ==
    Signed =>
        /\ sigS <= order \div 2
        /\ (Recovers(0) \/ Recovers(1)) => Recovers(signCall.out.v - 27)

\* a call in which s was in the upper half and was replaced by order - s
C5_Witness ==
    /\ Signed
    /\ RawS > order \div 2
    /\ sigS = order - RawS
    /\ Recovers(signCall.out.v - 27)

C7_NonZero == Signed => sigR # 0 /\ sigS # 0

\* C8: signHash returns a signature only if one of the two parities recovers
\* the public key of the signer from it; otherwise the call fails.
C8_NoDefaultRecoveryId == Signed => Recovers(0) \/ Recovers(1)

IsLowerHex(c) == (c >= 48 /\ c <= 57) \/ (c >= 97 /\ c <= 102)

FixedWidthHex(str) ==
    /\ Len(str) = 2 + 2 * HashLen
    /\ str[1] = 48
    /\ str[2] = 120
    /\ \A i \in 3..Len(str) : IsLowerHex(str[i])

\* C9: r and s of a returned signature are "0x" followed by exactly two
\* hexadecimal digits for each of the HashLen bytes, leading zero bytes kept.
C9_FixedWidth == Signed => FixedWidthHex(signCall.out.r) /\ FixedWidthHex(signCall.out.s)

(***************************************************************************)
(* Properties of the key import                                            *)
(***************************************************************************)
\* the string, with or without "0x", is hexadecimal digits and nothing else,
\* and their value is in [1, order - 1]
DenotesValidKey(str) ==
    LET body == IF substr(str, 0, 2) = <<48, 120>> THEN SubSeq(str, 3, Len(str)) ELSE str
    IN  /\ body # <<>>
        /\ \A i \in 1..Len(body) : IsHexDigit(body[i])
        /\ HexNum(body) >= 1
        /\ HexNum(body) <= order - 1

\* C10: fromPrivateKey makes a Wallet exactly when the string denotes a value
\* in [1, order - 1]; for 0, for a value >= order and for a string that is not
\* hexadecimal it fails with an invalid-key error.
C10_ImportRange ==
    keyCall.op = "fromPrivateKey" =>
        (keyCall.out.ok <=> DenotesValidKey(keyCall.private_key_hex))

(***************************************************************************)
(* EIP-712 typed data (eip712.cpp) and the two signing entry points        *)
(* (signing.cpp).  The 32 bytes of a Keccak-256 digest are modelled by two *)
(* 20-bit lanes mixed over the preimage and repeated to 32 bytes.          *)
(***************************************************************************)
\* the string literals of eip712.cpp, signing.cpp and Exchange::usdTransfer
Lit ==
    [types |-> <<116, 121, 112, 101, 115>>,
     domain |-> <<100, 111, 109, 97, 105, 110>>,
     primaryType |->
        <<112, 114, 105, 109, 97, 114, 121, 84, 121, 112, 101>>,
     message |-> <<109, 101, 115, 115, 97, 103, 101>>,
     EIP712Domain |-> <<69, 73, 80, 55, 49, 50, 68, 111, 109, 97, 105, 110>>,
     name |-> <<110, 97, 109, 101>>,
     type |-> <<116, 121, 112, 101>>,
     version |-> <<118, 101, 114, 115, 105, 111, 110>>,
     chainId |-> <<99, 104, 97, 105, 110, 73, 100>>,
     verifyingContract |->
        <<118, 101, 114, 105, 102, 121, 105, 110, 103, 67, 111, 110, 116, 114, 97, 99, 116>>,
     string |-> <<115, 116, 114, 105, 110, 103>>,
     bytes32 |-> <<98, 121, 116, 101, 115, 51, 50>>,
     uint64 |-> <<117, 105, 110, 116, 54, 52>>,
     uint256 |-> <<117, 105, 110, 116, 50, 53, 54>>,
     address |-> <<97, 100, 100, 114, 101, 115, 115>>,
     bytes |-> <<98, 121, 116, 101, 115>>,
     source |-> <<115, 111, 117, 114, 99, 101>>,
     connectionId |->
        <<99, 111, 110, 110, 101, 99, 116, 105, 111, 110, 73, 100>>,
     Agent |-> <<65, 103, 101, 110, 116>>,
     Exchange |-> <<69, 120, 99, 104, 97, 110, 103, 101>>,
     HyperliquidSignTransaction |->
        <<72, 121, 112, 101, 114, 108, 105, 113, 117, 105, 100, 83, 105, 103, 110, 84, 114, 97, 110, 115, 97, 99, 116, 105, 111, 110>>,
     hyperliquidChain |->
        <<104, 121, 112, 101, 114, 108, 105, 113, 117, 105, 100, 67, 104, 97, 105, 110>>,
     Mainnet |-> <<77, 97, 105, 110, 110, 101, 116>>,
     Testnet |-> <<84, 101, 115, 116, 110, 101, 116>>,
     a |-> <<97>>,
     b |-> <<98>>,
     one |-> <<49>>,
     destination |->
        <<100, 101, 115, 116, 105, 110, 97, 116, 105, 111, 110>>,
     amount |-> <<97, 109, 111, 117, 110, 116>>,
     time |-> <<116, 105, 109, 101>>,
     usdSend |-> <<117, 115, 100, 83, 101, 110, 100>>,
     UsdSend |->
        <<72, 121, 112, 101, 114, 108, 105, 113, 117, 105, 100, 84, 114, 97, 110, 115, 97, 99, 116, 105, 111, 110, 58, 85, 115, 100, 83, 101, 110, 100>>]

\* the modulus of a lane of the digest
LaneMod == 1048573

\* one lane: the halves of the data mixed with the multipliers a and b
RECURSIVE Lane(_, _, _)
Lane(data, a, b) ==
    IF Len(data) = 0 THEN 1
    ELSE IF Len(data) = 1 THEN (data[1] * a + b) % LaneMod
    ELSE (((Lane(SubSeq(data, 1, Len(data) \div 2), a, b) * a) % LaneMod)
          + ((Lane(SubSeq(data, Len(data) \div 2 + 1, Len(data)), a, b) * b) % LaneMod)
          + Len(data)) % LaneMod

\* the 32 bytes that crypto::keccak256 returns for a digest
DigestBytes(digest) ==
    LET w == BN_bn2binpad(Lane(digest[2], 1021, 977), 3)
               \o BN_bn2binpad(Lane(digest[2], 619, 883), 3)
    IN  [i \in 1..32 |-> w[((i + 3) % 6) + 1]]

\* bytesToHex without std::setw(2) and std::setfill('0')
bytesToHex_noFill(bytes, with_prefix) ==
    (IF with_prefix THEN <<48, 120>> ELSE <<>>)
    \o Concat([i \in 1..Len(bytes) |->
                  IF bytes[i] < 16 THEN <<HexChar(bytes[i])>>
                  ELSE <<HexChar(bytes[i] \div 16), HexChar(bytes[i] % 16)>>])

\* bytesToHex(bytes, with_prefix)
bytesToHex(bytes, with_prefix) ==
    (IF with_prefix THEN <<48, 120>> ELSE <<>>)
    \o [i \in 1..(2 * Len(bytes)) |->
            HexChar(IF i % 2 = 1 THEN bytes[(i + 1) \div 2] \div 16
                    ELSE bytes[i \div 2] % 16)]

\* nlohmann::json::contains(key) and operator[](key) of a const json
contains(j, key) == j[1] = "obj" /\ \E i \in 1..Len(j[2]) : j[2][i][1] = key
at(j, key) == j[2][CHOOSE i \in 1..Len(j[2]) : j[2][i][1] = key][2]

\* an insertion that leaves the value of a key already present
assign_keep(j, key, value) ==
    IF contains(j, key) THEN j ELSE JObj(MapInsert(j[2], <<key, value>>))

\* operator[](key) = value of a json object: the pair replaced or inserted
assign(j, key, value) ==
    IF contains(j, key)
    THEN JObj([i \in 1..Len(j[2]) |-> IF j[2][i][1] = key THEN <<key, value>> ELSE j[2][i]])
    ELSE JObj(MapInsert(j[2], <<key, value>>))

\* std::map::find(primary_type) over the types map, a sorted sequence of
\* <<type name, fields>>; 0 for end()
find(types, primary_type) ==
    IF \E i \in 1..Len(types) : types[i][1] = primary_type
    THEN CHOOSE i \in 1..Len(types) : types[i][1] = primary_type
    ELSE 0

encodeType(primary_type, types) ==
    LET it == find(types, primary_type)
        fields == types[it][2]
    IN  IF it = 0 THEN Failed("Primary type not found in types map")
        ELSE [ok |-> TRUE,
              result |-> primary_type \o <<40>>
                  \o Concat([i \in 1..Len(fields) |->
                        (IF i > 1 THEN <<44>> ELSE <<>>)
                        \o fields[i].type \o <<32>> \o fields[i].name])
                  \o <<41>>]

hashType(primary_type, types) ==
    LET encoded == encodeType(primary_type, types)
    IN  IF encoded.ok
        THEN [ok |-> TRUE, hash |-> DigestBytes(keccak256(encoded.result))]
        ELSE encoded

\* value.get<uint64_t>(): the 64 bits of a number, 0 or 1 of a boolean
get_uint64(value) ==
    IF value[1] \in {"int", "uint"} THEN [ok |-> TRUE, num |-> value[2]]
    ELSE IF value[1] = "bool"
    THEN [ok |-> TRUE, num |-> IF value[2] THEN I64(1) ELSE I64(0)]
    ELSE Failed("type must be number")


\* the address copied to the front of the word
copyAt0(bytes) == bytes \o Rep(0, 12)

\* std::copy(bytes.begin(), bytes.end(), encoded.begin() + 12) into 32 zero bytes
copyAt12(bytes) == Rep(0, 12) \o bytes

encodeField(type, value) ==
    IF type = Lit.string
    THEN IF value[1] # "str" THEN Failed("type must be string")
         ELSE [ok |-> TRUE, bytes |-> DigestBytes(keccak256(value[2]))]
    ELSE IF type = Lit.bytes32
    THEN IF value[1] # "str" THEN Failed("type must be string")
         ELSE LET bytes == hexToBytes(value[2])
              IN  IF ~bytes.ok THEN bytes
                  ELSE IF Len(bytes.bytes) # 32 THEN Failed("bytes32 field must be 32 bytes")
                  ELSE bytes
    ELSE IF type \in {Lit.uint64, Lit.uint256}
    THEN LET num == get_uint64(value)
         IN  IF ~num.ok THEN num
             ELSE [ok |-> TRUE, bytes |-> Rep(0, 24) \o BigEndian8(num.num)]
    ELSE IF type = Lit.address
    THEN IF value[1] # "str" THEN Failed("type must be string")
         ELSE LET bytes == hexToBytes(value[2])
              IN  IF ~bytes.ok THEN bytes
                  ELSE IF Len(bytes.bytes) # 20 THEN Failed("Address must be 20 bytes")
                  ELSE [ok |-> TRUE, bytes |-> copyAt12(bytes.bytes)]
    ELSE Failed("Unsupported EIP-712 type")

\* the field that stops hashStruct, 0 when every declared field encodes
FirstFailure(results) ==
    IF \A i \in 1..Len(results) : results[i].ok THEN 0
    ELSE CHOOSE i \in 1..Len(results) :
            ~results[i].ok /\ \A j \in 1..(i - 1) : results[j].ok


\* the fields of a type in the order of their names, the order in which the
\* data, a std::map, holds its keys
RECURSIVE ByName(_)
ByName(fields) ==
    IF fields = <<>> THEN <<>>
    ELSE LET least == CHOOSE i \in 1..Len(fields) :
                        \A j \in 1..Len(fields) : ~StrLess(fields[j].name, fields[i].name)
         IN  <<fields[least]>>
             \o ByName([k \in 1..(Len(fields) - 1) |->
                            IF k < least THEN fields[k] ELSE fields[k + 1]])

\* hashStruct with the fields taken in the order of the keys of the data
hashStruct_dataOrder(struct_type, data, types) ==
    LET type_hash == hashType(struct_type, types)
        fields == ByName(types[find(types, struct_type)][2])
        field_bytes == [i \in 1..Len(fields) |->
            IF ~contains(data, fields[i].name)
            THEN Failed("Missing field in struct data")
            ELSE encodeField(fields[i].type, at(data, fields[i].name))]
        stop == FirstFailure(field_bytes)
        encoded == type_hash.hash \o Concat([i \in 1..Len(fields) |-> field_bytes[i].bytes])
    IN  IF ~type_hash.ok THEN type_hash
        ELSE IF stop # 0 THEN field_bytes[stop]
        ELSE [ok |-> TRUE, encoded |-> encoded, hash |-> DigestBytes(keccak256(encoded))]


\* hashStruct with an absent field taken as a word of zero bytes
hashStruct_absentAsZero(struct_type, data, types) ==
    LET type_hash == hashType(struct_type, types)
        fields == types[find(types, struct_type)][2]
        field_bytes == [i \in 1..Len(fields) |->
            IF ~contains(data, fields[i].name)
            THEN [ok |-> TRUE, bytes |-> Rep(0, 32)]
            ELSE encodeField(fields[i].type, at(data, fields[i].name))]
        stop == FirstFailure(field_bytes)
        encoded == type_hash.hash \o Concat([i \in 1..Len(fields) |-> field_bytes[i].bytes])
    IN  IF ~type_hash.ok THEN type_hash
        ELSE IF stop # 0 THEN field_bytes[stop]
        ELSE [ok |-> TRUE, encoded |-> encoded, hash |-> DigestBytes(keccak256(encoded))]

hashStruct(struct_type, data, types) ==
    LET type_hash == hashType(struct_type, types)
        fields == types[find(types, struct_type)][2]
        field_bytes == [i \in 1..Len(fields) |->
            IF ~contains(data, fields[i].name)
            THEN Failed("Missing field in struct data")
            ELSE encodeField(fields[i].type, at(data, fields[i].name))]
        stop == FirstFailure(field_bytes)
        encoded == type_hash.hash \o Concat([i \in 1..Len(fields) |-> field_bytes[i].bytes])
    IN  IF ~type_hash.ok THEN type_hash
        ELSE IF stop # 0 THEN field_bytes[stop]
        ELSE [ok |-> TRUE, encoded |-> encoded, hash |-> DigestBytes(keccak256(encoded))]

\* the types map that encodeTypedData builds from typed_data["types"], an
\* object of arrays of {"name", "type"} objects
types_map(types) ==
    [i \in 1..Len(types[2]) |->
        <<types[2][i][1],
          [k \in 1..Len(types[2][i][2][2]) |->
              [name |-> at(types[2][i][2][2][k], Lit.name)[2],
               type |-> at(types[2][i][2][2][k], Lit.type)[2]]]>>]


\* encodeTypedData with the message hash ahead of the domain separator
encodeTypedData_messageFirst(typed_data) ==
    IF ~contains(typed_data, Lit.types) \/ ~contains(typed_data, Lit.domain)
       \/ ~contains(typed_data, Lit.primaryType) \/ ~contains(typed_data, Lit.message)
    THEN Failed("Invalid EIP-712 typed data structure")
    ELSE
    LET types == types_map(at(typed_data, Lit.types))
        domain_hash == hashStruct(Lit.EIP712Domain, at(typed_data, Lit.domain), types)
        primary_type == at(typed_data, Lit.primaryType)
        message_hash == hashStruct(primary_type[2], at(typed_data, Lit.message), types)
        result == <<25, 1>> \o message_hash.hash \o domain_hash.hash
    IN  IF ~domain_hash.ok THEN domain_hash
        ELSE IF primary_type[1] # "str" THEN Failed("type must be string")
        ELSE IF ~message_hash.ok THEN message_hash
        ELSE [ok |-> TRUE, result |-> result, hash |-> DigestBytes(keccak256(result))]

encodeTypedData(typed_data) ==
    IF ~contains(typed_data, Lit.types) \/ ~contains(typed_data, Lit.domain)
       \/ ~contains(typed_data, Lit.primaryType) \/ ~contains(typed_data, Lit.message)
    THEN Failed("Invalid EIP-712 typed data structure")
    ELSE
    LET types == types_map(at(typed_data, Lit.types))
        domain_hash == hashStruct(Lit.EIP712Domain, at(typed_data, Lit.domain), types)
        primary_type == at(typed_data, Lit.primaryType)
        message_hash == hashStruct(primary_type[2], at(typed_data, Lit.message), types)
        result == <<25, 1>> \o domain_hash.hash \o message_hash.hash
    IN  IF ~domain_hash.ok THEN domain_hash
        ELSE IF primary_type[1] # "str" THEN Failed("type must be string")
        ELSE IF ~message_hash.ok THEN message_hash
        ELSE [ok |-> TRUE, result |-> result, hash |-> DigestBytes(keccak256(result))]

(***************************************************************************)
(* signing.cpp: the phantom agent, the two payloads, the two entry points  *)
(***************************************************************************)
\* a json object made from an initializer list of pairs
object(pairs) == JObj(MapFrom(pairs, <<>>))

\* constructPhantomAgent with the prefix of the connection id following the network
constructPhantomAgent_prefixByNetwork(hash, is_mainnet) ==
    LET source == IF is_mainnet THEN Lit.a ELSE Lit.b
        connection_id == bytesToHex(hash, is_mainnet)
    IN  object(<< <<Lit.source, JStr(source)>>, <<Lit.connectionId, JStr(connection_id)>> >>)

constructPhantomAgent(hash, is_mainnet) ==
    LET source == IF is_mainnet THEN Lit.a ELSE Lit.b
        connection_id == bytesToHex(hash, TRUE)
    IN  object(<< <<Lit.source, JStr(source)>>, <<Lit.connectionId, JStr(connection_id)>> >>)

EIP712Type_toJson(t) ==
    object(<< <<Lit.name, JStr(t.name)>>, <<Lit.type, JStr(t.type)>> >>)

EIP712Type(name, type) == [name |-> name, type |-> type]

\* the EIP712Domain type of both payloads
DomainTypes ==
    JArr(<<EIP712Type_toJson(EIP712Type(Lit.name, Lit.string)),
           EIP712Type_toJson(EIP712Type(Lit.version, Lit.string)),
           EIP712Type_toJson(EIP712Type(Lit.chainId, Lit.uint256)),
           EIP712Type_toJson(EIP712Type(Lit.verifyingContract, Lit.address))>>)

ZeroAddress == <<48, 120>> \o Rep(48, 40)

\* l1Payload under the domain of the user-signed actions
l1Payload_userDomain(phantom_agent) ==
    object(<< <<Lit.domain, object(<< <<Lit.name, JStr(Lit.HyperliquidSignTransaction)>>,
                                      <<Lit.version, JStr(Lit.one)>>,
                                      <<Lit.chainId, JInt(I64(421614))>>,
                                      <<Lit.verifyingContract, JStr(ZeroAddress)>> >>)>>,
              <<Lit.primaryType, JStr(Lit.Agent)>>,
              <<Lit.types, object(<< <<Lit.EIP712Domain, DomainTypes>>,
                                     <<Lit.Agent, JArr(<<
                                         EIP712Type_toJson(EIP712Type(Lit.source, Lit.string)),
                                         EIP712Type_toJson(EIP712Type(Lit.connectionId, Lit.bytes32))>>)>> >>)>>,
              <<Lit.message, phantom_agent>> >>)

l1Payload(phantom_agent) ==
    object(<< <<Lit.domain, object(<< <<Lit.name, JStr(Lit.Exchange)>>,
                                      <<Lit.version, JStr(Lit.one)>>,
                                      <<Lit.chainId, JInt(I64(1337))>>,
                                      <<Lit.verifyingContract, JStr(ZeroAddress)>> >>)>>,
              <<Lit.primaryType, JStr(Lit.Agent)>>,
              <<Lit.types, object(<< <<Lit.EIP712Domain, DomainTypes>>,
                                     <<Lit.Agent, JArr(<<
                                         EIP712Type_toJson(EIP712Type(Lit.source, Lit.string)),
                                         EIP712Type_toJson(EIP712Type(Lit.connectionId, Lit.bytes32))>>)>> >>)>>,
              <<Lit.message, phantom_agent>> >>)

userSignedPayload(primary_type, payload_types, action) ==
    LET types_array == JArr([i \in 1..Len(payload_types) |->
                                EIP712Type_toJson(payload_types[i])])
    IN  object(<< <<Lit.domain, object(<< <<Lit.name, JStr(Lit.HyperliquidSignTransaction)>>,
                                          <<Lit.version, JStr(Lit.one)>>,
                                          <<Lit.chainId, JInt(I64(421614))>>,   \* 0x66eee
                                          <<Lit.verifyingContract, JStr(ZeroAddress)>> >>)>>,
                  <<Lit.primaryType, JStr(primary_type)>>,
                  <<Lit.types, object(<< <<Lit.EIP712Domain, DomainTypes>>,
                                         <<primary_type, types_array>> >>)>>,
                  <<Lit.message, action>> >>)

\* Wallet::signMessage on a 32-byte digest: the signer of the scaled curve
\* takes its last HashLen bytes
Wallet_signMessage(ec_key, message_hash) ==
    signHash(ec_key, SubSeq(message_hash, 32 - HashLen + 1, 32))

\* a local variable: the one value of its initialiser, computed once
Local(init) == CHOOSE value \in init : TRUE

\* what a sign call leaves behind: the stage it ended in, the values of the
\* stages it went through, and the Signature when it returned one
signL1Action(ec_key, action, vault_address, nonce, expires_after, is_mainnet) ==
    Local({
        IF ~hash.ok THEN [ok |-> FALSE, stage |-> "actionHash", err |-> hash.err]
        ELSE Local({ Local({ Local({
            IF ~message_hash.ok
            THEN [ok |-> FALSE, stage |-> "encodeTypedData", err |-> message_hash.err,
                  hash |-> hash_bytes, payload |-> payload]
            ELSE Local({
                IF ~signature.ok
                THEN [ok |-> FALSE, stage |-> "signMessage", err |-> signature.err,
                      hash |-> hash_bytes, payload |-> payload,
                      message_hash |-> message_hash.hash]
                ELSE [ok |-> TRUE, stage |-> "signMessage",
                      hash |-> hash_bytes, payload |-> payload,
                      message_hash |-> message_hash.hash, signature |-> signature]
                : signature \in {Wallet_signMessage(ec_key, message_hash.hash)} })
            : message_hash \in {encodeTypedData(payload)} })
            : payload \in {l1Payload(constructPhantomAgent(hash_bytes, is_mainnet))} })
            : hash_bytes \in {DigestBytes(hash.digest)} })
        : hash \in {actionHash(action, vault_address, nonce, expires_after)} })

signUserSignedAction(ec_key, action0, payload_types, primary_type, is_mainnet) ==
    Local({ Local({
        IF ~message_hash.ok
        THEN [ok |-> FALSE, stage |-> "encodeTypedData", err |-> message_hash.err,
              payload |-> payload]
        ELSE Local({
            IF ~signature.ok
            THEN [ok |-> FALSE, stage |-> "signMessage", err |-> signature.err,
                  payload |-> payload, message_hash |-> message_hash.hash]
            ELSE [ok |-> TRUE, stage |-> "signMessage", payload |-> payload,
                  message_hash |-> message_hash.hash, signature |-> signature]
            : signature \in {Wallet_signMessage(ec_key, message_hash.hash)} })
        : message_hash \in {encodeTypedData(payload)} })
        : payload \in {userSignedPayload(primary_type, payload_types,
                           assign(action0, Lit.hyperliquidChain,
                                  JStr(IF is_mainnet THEN Lit.Mainnet ELSE Lit.Testnet)))} })

(***************************************************************************)
(* Direct calls of encodeField, hashStruct and encodeTypedData.  A caller  *)
(* hands over trees it built; binding one to a const nlohmann::json&       *)
(* parameter makes the json (ToJson).                                      *)
(***************************************************************************)
Hex32 == <<48, 120>> \o Rep(97, 2) \o Rep(49, 62)      \* "0xaa11...1", 32 bytes
MixedAddress == <<48, 120, 65, 98>> \o Rep(57, 38)      \* "0xAb99...9", 20 bytes
BareAddress == Rep(102, 40)                             \* "ff...f" without "0x"
OddHex == <<48, 120, 49, 50, 51>>                       \* "0x123"
LongAddress == <<48, 120>> \o Rep(49, 42)               \* 21 bytes

FieldTypes ==
    {Lit.string, Lit.bytes32, Lit.uint64, Lit.uint256, Lit.address, Lit.bytes, Lit.time}

FieldValues ==
    {JStr(Lit.a), JStr(<<>>), JStr(Lit.Exchange), JStr(ZeroAddress), JStr(MixedAddress),
     JStr(BareAddress), JStr(ShortVault), JStr(OddHex), JStr(LongAddress), JStr(Hex32),
     JInt(I64(1337)), JInt(Timestamp), JUint(I64(70000)), JInt(I64(-2)),
     JBool(TRUE), JNull}

AgentFields ==
    <<EIP712Type(Lit.source, Lit.string), EIP712Type(Lit.connectionId, Lit.bytes32)>>
DomainFields ==
    <<EIP712Type(Lit.name, Lit.string), EIP712Type(Lit.version, Lit.string),
      EIP712Type(Lit.chainId, Lit.uint256), EIP712Type(Lit.verifyingContract, Lit.address)>>

\* types maps: the one of l1Payload, one that declares the fields of Agent the
\* other way round, one whose Agent has a field of dynamic type bytes
TypesMaps ==
    { << <<Lit.Agent, AgentFields>>, <<Lit.EIP712Domain, DomainFields>> >>,
      << <<Lit.Agent, <<AgentFields[2], AgentFields[1]>> >>, <<Lit.EIP712Domain, DomainFields>> >>,
      << <<Lit.Agent, <<EIP712Type(Lit.source, Lit.bytes), AgentFields[2]>> >>,
         <<Lit.EIP712Domain, DomainFields>> >> }

StructNames == {Lit.Agent, Lit.EIP712Domain, Lit.message}

L1Domain ==
    << <<Lit.name, JStr(Lit.Exchange)>>, <<Lit.version, JStr(Lit.one)>>,
       <<Lit.chainId, JInt(I64(1337))>>, <<Lit.verifyingContract, JStr(ZeroAddress)>> >>

\* the trees handed over as struct data: pairs in the order of insertion
StructTrees ==
    { JObj(<< <<Lit.source, JStr(Lit.a)>>, <<Lit.connectionId, JStr(Hex32)>> >>),
      JObj(<< <<Lit.connectionId, JStr(Hex32)>>, <<Lit.source, JStr(Lit.a)>> >>),
      JObj(<< <<Lit.type, JStr(Lit.usdSend)>>, <<Lit.connectionId, JStr(Hex32)>>,
              <<Lit.source, JStr(Lit.a)>>, <<Lit.amount, JInt(I64(5))>> >>),
      JObj(<< <<Lit.source, JStr(Lit.b)>>, <<Lit.connectionId, JStr(Hex32)>> >>),
      JObj(<< <<Lit.source, JStr(Lit.a)>> >>),
      JObj(<< <<Lit.connectionId, JStr(Hex32)>> >>),
      JObj(<< <<Lit.source, JInt(I64(7))>> >>),
      JObj(<< <<Lit.source, JStr(Lit.a)>>, <<Lit.connectionId, JStr(ShortVault)>> >>),
      JObj(<<>>),
      JArr(<<JStr(Lit.source), JStr(Lit.connectionId)>>),
      JObj(L1Domain),
      JObj(<<L1Domain[4], L1Domain[3], L1Domain[2], L1Domain[1]>>),
      JObj(<<L1Domain[1], L1Domain[2], L1Domain[4]>>) }

\* typed data: the payloads of the two entry points, and what is left of the
\* L1 payload without one of its keys or with another message
WithoutKey(j, key) ==
    JObj(SelectSeq(j[2], LAMBDA kv : kv[1] # key))

UsdSendFields ==
    <<EIP712Type(Lit.hyperliquidChain, Lit.string), EIP712Type(Lit.destination, Lit.string),
      EIP712Type(Lit.amount, Lit.string), EIP712Type(Lit.time, Lit.uint64)>>

usdSendAction(destination, amount) ==
    JObj(<< <<Lit.type, JStr(Lit.usdSend)>>, <<Lit.destination, JStr(destination)>>,
            <<Lit.amount, JStr(amount)>>, <<Lit.time, JInt(Timestamp)>> >>)

TypedDatas ==
    LET good == l1Payload(constructPhantomAgent(DigestBytes(keccak256(<<1, 2, 3>>)), TRUE))
        user == userSignedPayload(Lit.UsdSend, UsdSendFields,
                    assign(ToJson(usdSendAction(ZeroAddress, Lit.one)),
                           Lit.hyperliquidChain, JStr(Lit.Mainnet)))
    IN  {good, user, JArr(<<>>), JObj(<<>>)}
        \cup {WithoutKey(good, k) : k \in {Lit.types, Lit.domain, Lit.primaryType, Lit.message}}
        \cup {WithoutKey(WithoutKey(good, Lit.types), Lit.message)}
        \cup {assign(good, Lit.message, ToJson(m)) : m \in StructTrees}
        \cup {assign(good, Lit.primaryType, JStr(n)) : n \in StructNames}
        \cup {assign(good, Lit.domain, ToJson(d)) : d \in StructTrees}
        \cup {assign(user, Lit.message, ToJson(usdSendAction(ZeroAddress, Lit.one)))}

InitTyped ==
    /\ NoTyped
    /\ NoWallet
    /\ keyCall = NoCall
    /\ hashCall = NoCall
    /\ vault_address_ = <<>>
    /\ expires_after_ = None
    /\ NoExt

encodeFieldCall ==
    \E type \in FieldTypes, value \in FieldValues :
        /\ typedCall' = [op |-> "encodeField", type |-> type, value |-> value,
                         out |-> encodeField(type, value)]
        /\ UNCHANGED <<actionCall, encVars, signVars, keyVars, extVars>>

hashStructCall ==
    \E struct_type \in StructNames, data \in StructTrees, types \in TypesMaps :
        /\ typedCall' = [op |-> "hashStruct", struct_type |-> struct_type, data |-> data,
                         types |-> types,
                         out |-> hashStruct(struct_type, ToJson(data), types)]
        /\ UNCHANGED <<actionCall, encVars, signVars, keyVars, extVars>>

encodeTypedDataCall ==
    \E typed_data \in TypedDatas :
        /\ typedCall' = [op |-> "encodeTypedData", typed_data |-> typed_data,
                         out |-> encodeTypedData(typed_data)]
        /\ UNCHANGED <<actionCall, encVars, signVars, keyVars, extVars>>

NextTyped == encodeFieldCall \/ hashStructCall \/ encodeTypedDataCall

SpecTyped == InitTyped /\ [][NextTyped]_vars

(***************************************************************************)
(* bytesToHex and, on what it returned, hexToBytes                         *)
(***************************************************************************)
\* byte vectors handed to bytesToHex
MaxBytes == 3
ByteValues == {0, 9, 16, 171, 255}
ByteVectors == UNION {[1..n -> ByteValues] : n \in 0..MaxBytes}

bytesToHexCall ==
    \E bytes \in ByteVectors, with_prefix \in BOOLEAN :
        /\ typedCall' = [op |-> "bytesToHex", bytes |-> bytes, with_prefix |-> with_prefix,
                         out |-> bytesToHex(bytes, with_prefix)]
        /\ UNCHANGED <<actionCall, encVars, signVars, keyVars, extVars>>

\* hexToBytes on the string that bytesToHex has just returned
hexToBytesCall ==
    /\ typedCall.op = "bytesToHex"
    /\ typedCall' = [op |-> "hexToBytes", hex |-> typedCall.out, from |-> typedCall.bytes,
                     with_prefix |-> typedCall.with_prefix, out |-> hexToBytes(typedCall.out)]
    /\ UNCHANGED <<actionCall, encVars, signVars, keyVars, extVars>>

NextHex == bytesToHexCall \/ hexToBytesCall

SpecHex == InitTyped /\ [][NextHex]_vars

(***************************************************************************)
(* Calls of constructPhantomAgent with l1Payload, of signL1Action and of   *)
(* signUserSignedAction, by the Wallet of one of ActionKeys.  actionCall   *)
(* holds the last two of them, the earlier one first; two calls are        *)
(* followed.                                                               *)
(***************************************************************************)
ActionKeys == {<<48, 120, 48, 48, 48, 51>>, <<49>>}     \* "0x0003", "1"

ActionNonces == {Timestamp, I64(11)}

\* whether "hyperliquidChain" is among the caller's keys, and with which value
UserTrees ==
    { usdSendAction(ZeroAddress, Lit.one),
      JObj(<< <<Lit.hyperliquidChain, JStr(Lit.Mainnet)>> >>
           \o usdSendAction(ZeroAddress, Lit.one)[2]),
      JObj(<< <<Lit.type, JStr(Lit.usdSend)>>, <<Lit.destination, JStr(ZeroAddress)>>,
              <<Lit.time, JInt(Timestamp)>> >>) }

\* the types of Exchange::usdTransfer, and the same with an amount of type bytes
PayloadTypes ==
    { UsdSendFields,
      <<UsdSendFields[1], UsdSendFields[2], EIP712Type(Lit.amount, Lit.bytes),
        UsdSendFields[4]>> }

InitAction ==
    /\ ec_key_ \in {Some(createKeyFromPrivate(h).ec_key) : h \in ActionKeys}
    /\ signCall = NoCall
    /\ watch = [phase |-> 0, first |-> NoCall]
    /\ NoTyped
    /\ keyCall = NoCall
    /\ hashCall = NoCall
    /\ vault_address_ = <<>>
    /\ expires_after_ = None
    /\ NoExt

constructPhantomAgentCall ==
    \E tree \in {cancelAction(<< <<0, 123>> >>), leverageAction(1, TRUE, 5)},
       is_mainnet \in BOOLEAN :
        LET hash == DigestBytes(actionHash(tree, None, Timestamp, None).digest)
            phantom_agent == constructPhantomAgent(hash, is_mainnet)
        IN  /\ actionCall[1] = NoCall
            /\ actionCall' = <<actionCall[2],
                               [op |-> "constructPhantomAgent", hash |-> hash,
                                is_mainnet |-> is_mainnet, out |-> phantom_agent,
                                payload |-> l1Payload(phantom_agent)]>>
            /\ UNCHANGED <<typedCall, encVars, signVars, keyVars, extVars>>

signL1ActionCall ==
    \E vault_address \in {None, Some(ValidVault), Some(ShortVault)},
       nonce \in ActionNonces, is_mainnet \in BOOLEAN :
        LET action == cancelAction(<< <<0, 123>> >>)
        IN  /\ actionCall[1] = NoCall
            /\ actionCall' = <<actionCall[2],
                  [op |-> "signL1Action", action |-> action, vault |-> vault_address,
                   nonce |-> nonce, is_mainnet |-> is_mainnet,
                   out |-> signL1Action(ec_key_[2], action, vault_address, nonce, None,
                                        is_mainnet)]>>
            /\ UNCHANGED <<typedCall, encVars, signVars, keyVars, extVars>>

signUserSignedActionCall ==
    \E action \in UserTrees, payload_types \in PayloadTypes, is_mainnet \in BOOLEAN :
        /\ actionCall[1] = NoCall
        /\ actionCall' = <<actionCall[2],
              [op |-> "signUserSignedAction", action |-> action,
               payload_types |-> payload_types, primary_type |-> Lit.UsdSend,
               is_mainnet |-> is_mainnet,
               out |-> signUserSignedAction(ec_key_[2], ToJson(action), payload_types,
                                            Lit.UsdSend, is_mainnet)]>>
        /\ UNCHANGED <<typedCall, encVars, signVars, keyVars, extVars>>

NextAction == constructPhantomAgentCall \/ signL1ActionCall \/ signUserSignedActionCall

SpecAction == InitAction /\ [][NextAction]_vars

(***************************************************************************)
(* Exchange: the operations that build an action, sign it and post the     *)
(* envelope to /exchange (exchange.cpp).  The Info of the Exchange has the *)
(* perp BTC and the spot pair PURR/USDC registered.  Prices and sizes are  *)
(* the strings floatToWire left; a timestamp is what getTimestampMs gave.  *)
(***************************************************************************)
\* the words of the exchange envelope and of the order actions
Word ==
    [action |-> <<97, 99, 116, 105, 111, 110>>,
     nonce |-> <<110, 111, 110, 99, 101>>,
     signature |-> <<115, 105, 103, 110, 97, 116, 117, 114, 101>>,
     vaultAddress |-> <<118, 97, 117, 108, 116, 65, 100, 100, 114, 101, 115, 115>>,
     expiresAfter |-> <<101, 120, 112, 105, 114, 101, 115, 65, 102, 116, 101, 114>>,
     r |-> <<114>>,
     s |-> <<115>>,
     v |-> <<118>>,
     usdClassTransfer |-> <<117, 115, 100, 67, 108, 97, 115, 115, 84, 114, 97, 110, 115, 102, 101, 114>>,
     sendAsset |-> <<115, 101, 110, 100, 65, 115, 115, 101, 116>>,
     spotSend |-> <<115, 112, 111, 116, 83, 101, 110, 100>>,
     token |-> <<116, 111, 107, 101, 110>>,
     order |-> <<111, 114, 100, 101, 114>>,
     orders |-> <<111, 114, 100, 101, 114, 115>>,
     grouping |-> <<103, 114, 111, 117, 112, 105, 110, 103>>,
     na |-> <<110, 97>>,
     b |-> <<98>>,
     p |-> <<112>>,
     t |-> <<116>>,
     limit |-> <<108, 105, 109, 105, 116>>,
     tif |-> <<116, 105, 102>>,
     Gtc |-> <<71, 116, 99>>,
     batchModify |-> <<98, 97, 116, 99, 104, 77, 111, 100, 105, 102, 121>>,
     modifies |-> <<109, 111, 100, 105, 102, 105, 101, 115>>,
     oid |-> <<111, 105, 100>>,
     builder |-> <<98, 117, 105, 108, 100, 101, 114>>,
     SpotSend |->
        <<72, 121, 112, 101, 114, 108, 105, 113, 117, 105, 100, 84, 114, 97, 110, 115, 97, 99, 116, 105, 111, 110, 58, 83, 112, 111, 116, 83, 101, 110, 100>>,
     PURR |->
        <<80, 85, 82, 82, 58, 48, 120, 99, 49, 102, 98, 53, 57, 51, 97, 101, 102, 102, 98, 101, 98, 48, 50, 102, 56, 53, 101, 48, 51, 48, 56, 101, 57, 57, 53, 54, 97, 57, 48>>,
     cloid |->
        <<48, 120, 48, 48, 48, 48, 48, 48, 48, 48, 48, 48, 48, 48, 48, 48, 48, 48, 48, 48, 48, 48, 48, 48, 48, 48, 48, 48, 48, 48, 48, 48, 48, 49>>,
     px |-> <<49, 48, 48, 46, 53>>,
     sz |-> <<48, 46, 50>>,
     f |-> <<102>>]

Signature_toJson(signature) ==
    object(<< <<Word.r, JStr(signature.r)>>, <<Word.s, JStr(signature.s)>>,
              <<Word.v, JInt(I64(signature.v))>> >>)

is_mainnet == base_url_ = MAINNET_API_URL

\* postAction leaving "vaultAddress" null whatever vault_address_ is
postAction_nullVault(action, signature, nonce) ==
    LET payload == object(<< <<Word.action, ToJson(action)>>, <<Word.nonce, JInt(nonce)>>,
                             <<Word.signature, Signature_toJson(signature)>> >>)
    IN  assign(assign(payload, Word.vaultAddress, JNull), Word.expiresAfter,
               IF expires_after_ # None THEN JInt(expires_after_[2]) ELSE JNull)

\* the envelope that postAction hands to post("/exchange", payload)
postAction(action, signature, nonce) ==
    LET payload == object(<< <<Word.action, ToJson(action)>>, <<Word.nonce, JInt(nonce)>>,
                             <<Word.signature, Signature_toJson(signature)>> >>)
        action_type == at(ToJson(action), Lit.type)[2]
        withVault ==
            IF action_type # Word.usdClassTransfer /\ action_type # Word.sendAsset
            THEN assign(payload, Word.vaultAddress,
                        IF vault_address_ # <<>> THEN JStr(vault_address_) ELSE JNull)
            ELSE payload
    IN  assign(withVault, Word.expiresAfter,
               IF expires_after_ # None THEN JInt(expires_after_[2]) ELSE JNull)

\* the ordered_json action of Exchange::bulkCancelByCloid
cancelByCloidAction(cancels) ==
    JObj(<< <<S_type, JStr(S_cancel)>>,
            <<S_cancels, JArr([i \in 1..Len(cancels) |->
                JObj(<< <<S_a, JInt(I64(cancels[i][1]))>>,
                        <<S_o, JStr(cancels[i][2])>> >>)])>> >>)

\* OrderWire::toJson of a limit order without cloid
OrderWire_toJson(wire) ==
    object(<< <<S_a, JInt(I64(wire.asset))>>, <<Word.b, JBool(wire.is_buy)>>,
              <<Word.p, JStr(wire.price)>>, <<Word.s, JStr(wire.size)>>,
              <<Word.r, JBool(wire.reduce_only)>>,
              <<Word.t, object(<< <<Word.limit,
                                    object(<< <<Word.tif, JStr(wire.tif)>> >>)>> >>)>> >>)

\* orderWiresToOrderAction without builder
orderWiresToOrderAction(order_wires, grouping) ==
    object(<< <<Lit.type, JStr(Word.order)>>,
              <<Word.orders, JArr([i \in 1..Len(order_wires) |->
                                      OrderWire_toJson(order_wires[i])])>>,
              <<Word.grouping, JStr(grouping)>> >>)

\* the ordered_json action of Exchange::bulkModifyOrders, oids given as int64_t
modifyAction(modifies) ==
    JObj(<< <<S_type, JStr(Word.batchModify)>>,
            <<Word.modifies, JArr([i \in 1..Len(modifies) |->
                JObj(<< <<Word.oid, JInt(I64(modifies[i].oid))>>,
                        <<Word.order, OrderWire_toJson(modifies[i].order)>> >>)])>> >>)

\* the action of Exchange::usdTransfer and its payload types
usdTransferAction(amount, destination, time) ==
    object(<< <<Lit.type, JStr(Lit.usdSend)>>, <<Lit.destination, JStr(destination)>>,
              <<Lit.amount, JStr(amount)>>, <<Lit.time, JInt(time)>> >>)

\* the action of Exchange::spotTransfer and its payload types
spotTransferAction(amount, destination, token, time) ==
    object(<< <<Lit.type, JStr(Word.spotSend)>>, <<Lit.destination, JStr(destination)>>,
              <<Word.token, JStr(token)>>, <<Lit.amount, JStr(amount)>>,
              <<Lit.time, JInt(time)>> >>)

SpotSendFields ==
    <<EIP712Type(Lit.hyperliquidChain, Lit.string), EIP712Type(Lit.destination, Lit.string),
      EIP712Type(Word.token, Lit.string), EIP712Type(Lit.amount, Lit.string),
      EIP712Type(Lit.time, Lit.uint64)>>

\* the end of every L1 operation: vault_opt, signL1Action, postAction
signAndPost(op, action, timestamp) ==
    Local({
        IF ~signed.ok THEN [op |-> op, at |-> "throw", err |-> signed.err]
        ELSE [op |-> op, at |-> "return", signature |-> signed.signature,
              hash |-> signed.hash,
              payload |-> postAction(action, signed.signature, timestamp)]
        : signed \in {signL1Action(ec_key_[2], action, vault_opt, timestamp,
                                   expires_after_, is_mainnet)} })

\* the end of usdTransfer and spotTransfer: signUserSignedAction, postAction
signUserAndPost(op, action, payload_types, primary_type) ==
    Local({
        IF ~signed.ok THEN [op |-> op, at |-> "throw", err |-> signed.err]
        ELSE [op |-> op, at |-> "return", signature |-> signed.signature,
              payload_types |-> payload_types,
              signed |-> at(signed.payload, Lit.message),
              payload |-> postAction(action, signed.signature, at(action, Lit.time)[2])]
        : signed \in {signUserSignedAction(ec_key_[2], action, payload_types,
                                           primary_type, is_mainnet)} })

MaxOrders == 1

ExchangeKeys == {<<48, 120, 48, 48, 48, 51>>}     \* "0x0003"
ExchangeVaults == {<<>>, ValidVault, ShortVault}
Coins == {"BTC", "PURR/USDC", "DOGE"}
Times == {Timestamp, I64(11)}
Cloids == {Word.cloid}
OrderRequests ==
    { [coin |-> coin, is_buy |-> TRUE, sz |-> Word.sz, limit_px |-> Word.px,
       reduce_only |-> FALSE, tif |-> Word.Gtc] : coin \in {"BTC", "DOGE"} }

\* the Info of the Exchange: Meta {BTC} at offset 0, SpotMeta {PURR/USDC}
ExchangeInfo ==
    registerSpotMeta(
        setPerpMeta([name_to_coin_ |-> <<>>, coin_to_asset_ |-> <<>>,
                     asset_to_sz_decimals_ |-> <<>>],
                    [universe |-> <<[name |-> "BTC", sz_decimals |-> 5]>>], 0),
        [universe |-> <<[name |-> "PURR/USDC", tokens |-> <<1, 0>>, index |-> 0]>>,
         tokens |-> SpotTokens])

InitExchange ==
    /\ ec_key_ \in {Some(createKeyFromPrivate(h).ec_key) : h \in ExchangeKeys}
    /\ vault_address_ \in ExchangeVaults
    /\ base_url_ \in {MAINNET_API_URL, TESTNET_API_URL}
    /\ expires_after_ = None
    /\ posted = NoCall
    /\ name_to_coin_ = ExchangeInfo.name_to_coin_
    /\ coin_to_asset_ = ExchangeInfo.coin_to_asset_
    /\ asset_to_sz_decimals_ = ExchangeInfo.asset_to_sz_decimals_
    /\ infoCall = NoCall
    /\ signCall = NoCall /\ watch = [phase |-> 0, first |-> NoCall]
    /\ NoTyped /\ keyCall = NoCall /\ hashCall = NoCall
    /\ NoThreads /\ NoOwners /\ NoLoop

\* info_.nameToAsset(coin) for every request, the first throw ending the call
RECURSIVE Resolve(_, _)
Resolve(coins, i) ==
    IF i > Len(coins) THEN [ok |-> TRUE, assets |-> <<>>]
    ELSE LET asset == nameToAsset(Tables, coins[i])
         IN  IF ~asset.ok THEN asset
             ELSE LET rest == Resolve(coins, i + 1)
                  IN  IF ~rest.ok THEN rest
                      ELSE [ok |-> TRUE, assets |-> <<asset.asset>> \o rest.assets]

\* an operation runs in two steps, and nothing else runs between them: it
\* builds its action and takes the timestamp (or throws in nameToAsset), then
\* it signs and posts
Idle == IF posted.op = "none" THEN TRUE ELSE posted.at \in {"return", "throw"}

Posting(call) ==
    /\ posted' = call
    /\ UNCHANGED <<base_url_, coreVars, threadVars, ownVars, nonceVars, infoVars>>

Thrown(op, failed) == [op |-> op, at |-> "throw", err |-> failed.err]

Built(op, action, timestamp) ==
    [op |-> op, at |-> "signL1Action", action |-> action, timestamp |-> timestamp]

BuiltUser(op, action, payload_types, primary_type) ==
    [op |-> op, at |-> "signUserSignedAction", action |-> action,
     payload_types |-> payload_types, primary_type |-> primary_type]

Exchange_setExpiresAfter == Idle /\ setExpiresAfter

Exchange_bulkOrders ==
    \E n \in 1..MaxOrders, timestamp \in {Timestamp} :
      \E orders \in [1..n -> OrderRequests] :
        LET assets == Resolve([i \in 1..n |-> orders[i].coin], 1)
            order_wires == [i \in 1..n |->
                [asset |-> assets.assets[i], is_buy |-> orders[i].is_buy,
                 price |-> orders[i].limit_px, size |-> orders[i].sz,
                 reduce_only |-> orders[i].reduce_only, tif |-> orders[i].tif]]
        IN  /\ Idle
            /\ Posting(IF ~assets.ok THEN Thrown("bulkOrders", assets)
                       ELSE Built("bulkOrders",
                                orderWiresToOrderAction(order_wires, Word.na), timestamp))

Exchange_bulkCancel ==
    \E n \in 1..MaxCancels, timestamp \in Times :
      \E cancels \in [1..n -> Coins \X Oids] :
        LET assets == Resolve([i \in 1..n |-> cancels[i][1]], 1)
        IN  /\ Idle
            /\ Posting(IF ~assets.ok THEN Thrown("bulkCancel", assets)
                       ELSE Built("bulkCancel",
                                cancelAction([i \in 1..n |->
                                                <<assets.assets[i], cancels[i][2]>>]),
                                timestamp))

Exchange_bulkCancelByCloid ==
    \E n \in 1..MaxCancels, timestamp \in {Timestamp} :
      \E cancels \in [1..n -> {"BTC", "DOGE"} \X Cloids] :
        LET assets == Resolve([i \in 1..n |-> cancels[i][1]], 1)
        IN  /\ Idle
            /\ Posting(IF ~assets.ok THEN Thrown("bulkCancelByCloid", assets)
                       ELSE Built("bulkCancelByCloid",
                                cancelByCloidAction(
                                    [i \in 1..n |-> <<assets.assets[i], cancels[i][2]>>]),
                                timestamp))

Exchange_bulkModifyOrders ==
    \E n \in 1..MaxOrders, timestamp \in {Timestamp} :
      \E modifies \in [1..n -> [oid : Oids, order : OrderRequests]] :
        LET assets == Resolve([i \in 1..n |-> modifies[i].order.coin], 1)
            wires == [i \in 1..n |->
                [oid |-> modifies[i].oid,
                 order |-> [asset |-> assets.assets[i], is_buy |-> modifies[i].order.is_buy,
                            price |-> modifies[i].order.limit_px,
                            size |-> modifies[i].order.sz,
                            reduce_only |-> modifies[i].order.reduce_only,
                            tif |-> modifies[i].order.tif]]]
        IN  /\ Idle
            /\ Posting(IF ~assets.ok THEN Thrown("bulkModifyOrders", assets)
                       ELSE Built("bulkModifyOrders", modifyAction(wires), timestamp))

Exchange_updateLeverage ==
    \E leverage \in {5}, coin \in {"BTC", "DOGE"}, is_cross \in BOOLEAN,
       timestamp \in {Timestamp} :
        LET asset == nameToAsset(Tables, coin)
        IN  /\ Idle
            /\ Posting(IF ~asset.ok THEN Thrown("updateLeverage", asset)
                       ELSE Built("updateLeverage",
                                leverageAction(asset.asset, is_cross, leverage), timestamp))

Exchange_usdTransfer ==
    \E amount \in {Lit.one}, destination \in {ZeroAddress}, time \in Times :
        /\ Idle
        /\ Posting(BuiltUser("usdTransfer", usdTransferAction(amount, destination, time),
                             UsdSendFields, Lit.UsdSend))

Exchange_spotTransfer ==
    \E amount \in {Lit.one}, destination \in {ZeroAddress}, token \in {Word.PURR},
       time \in {Timestamp} :
        /\ Idle
        /\ Posting(BuiltUser("spotTransfer",
                             spotTransferAction(amount, destination, token, time),
                             SpotSendFields, Word.SpotSend))

\* the second step of an L1 operation
Exchange_signL1Action ==
    /\ ~Idle /\ posted.at = "signL1Action"
    /\ Posting(signAndPost(posted.op, posted.action, posted.timestamp))

\* the second step of usdTransfer and spotTransfer
Exchange_signUserSignedAction ==
    /\ ~Idle /\ posted.at = "signUserSignedAction"
    /\ Posting(signUserAndPost(posted.op, posted.action, posted.payload_types,
                               posted.primary_type))

NextExchange ==
    \/ Exchange_setExpiresAfter
    \/ Exchange_bulkOrders \/ Exchange_bulkCancel \/ Exchange_bulkCancelByCloid
    \/ Exchange_bulkModifyOrders \/ Exchange_updateLeverage
    \/ Exchange_usdTransfer \/ Exchange_spotTransfer
    \/ Exchange_signL1Action \/ Exchange_signUserSignedAction

SpecExchange == InitExchange /\ [][NextExchange]_vars

(***************************************************************************)
(* Properties of the typed-data encoder                                    *)
(***************************************************************************)
TypedDataKeys == {Lit.types, Lit.domain, Lit.primaryType, Lit.message}

\* the struct hash of one part of the typed data in the call
PartHash(struct_type, key) ==
    hashStruct(struct_type, at(typedCall.typed_data, key),
               types_map(at(typedCall.typed_data, Lit.types)))

\* C11: the digest encodeTypedData returns is Keccak-256 of 66 bytes: 0x19, 0x01,
\* hashStruct("EIP712Domain", domain), hashStruct(primaryType, message), in that
\* order; typed data without one of types, domain, primaryType, message gives
\* the error and no digest.
C11_TypedDigest ==
    typedCall.op = "encodeTypedData" =>
        IF \E k \in TypedDataKeys : ~contains(typedCall.typed_data, k)
        THEN typedCall.out = Failed("Invalid EIP-712 typed data structure")
        ELSE typedCall.out.ok =>
            /\ Len(typedCall.out.result) = 66
            /\ SubSeq(typedCall.out.result, 1, 2) = <<25, 1>>
            /\ SubSeq(typedCall.out.result, 3, 34)
                 = PartHash(Lit.EIP712Domain, Lit.domain).hash
            /\ SubSeq(typedCall.out.result, 35, 66)
                 = PartHash(at(typedCall.typed_data, Lit.primaryType)[2], Lit.message).hash
            /\ typedCall.out.hash = DigestBytes(keccak256(typedCall.out.result))

\* a digest of typed data whose two struct hashes differ
C11_Witness ==
    /\ typedCall.op = "encodeTypedData"
    /\ typedCall.out.ok
    /\ SubSeq(typedCall.out.result, 3, 34) # SubSeq(typedCall.out.result, 35, 66)
    /\ at(typedCall.typed_data, Lit.primaryType) = JStr(Lit.UsdSend)

\* the fields that the types of the call declare for its struct
Declared == typedCall.types[find(typedCall.types, typedCall.struct_type)][2]

\* the tree that holds the declared fields of the data and nothing else, the
\* pairs inserted in the declared order
DeclaredOnly ==
    JObj([i \in 1..Len(Declared) |->
            <<Declared[i].name, at(ToJson(typedCall.data), Declared[i].name)>>])

\* C12: the digest of hashStruct is Keccak-256 of the type hash followed by one
\* 32-byte word for each declared field, in the declared order; the data's own
\* key order and its undeclared keys do not change the result.
C12_DeclaredOrder ==
    (typedCall.op = "hashStruct" /\ typedCall.out.ok) =>
        /\ Len(typedCall.out.encoded) = 32 * (1 + Len(Declared))
        /\ SubSeq(typedCall.out.encoded, 1, 32)
             = DigestBytes(keccak256(encodeType(typedCall.struct_type, typedCall.types).result))
        /\ \A i \in 1..Len(Declared) :
              SubSeq(typedCall.out.encoded, 32 * i + 1, 32 * i + 32)
                = encodeField(Declared[i].type,
                              at(ToJson(typedCall.data), Declared[i].name)).bytes
        /\ typedCall.out.hash = DigestBytes(keccak256(typedCall.out.encoded))
        /\ typedCall.out = hashStruct(typedCall.struct_type, ToJson(DeclaredOnly), typedCall.types)

\* a struct hashed from data that holds undeclared keys and whose keys were
\* inserted, and are kept, in another order than the declared one
C12_Witness ==
    /\ typedCall.op = "hashStruct"
    /\ typedCall.out.ok
    /\ typedCall.struct_type = Lit.Agent
    /\ Declared[1].name = Lit.source
    /\ Len(typedCall.data[2]) = 4
    /\ typedCall.data[2][2][1] = Lit.connectionId
    /\ typedCall.data # DeclaredOnly

\* the struct of the call is declared and the data lacks the declared field i
Absent(i) ==
    /\ typedCall.op = "hashStruct"
    /\ find(typedCall.types, typedCall.struct_type) # 0
    /\ i \in 1..Len(Declared)
    /\ ~contains(ToJson(typedCall.data), Declared[i].name)

\* the declared fields ahead of field i are in the data and encode
EncodesUpTo(i) ==
    \A j \in 1..(i - 1) :
        /\ contains(ToJson(typedCall.data), Declared[j].name)
        /\ encodeField(Declared[j].type, at(ToJson(typedCall.data), Declared[j].name)).ok

\* C13 as stated: whenever the data lacks a declared field, hashStruct fails
\* with the missing-field error.
C13_MissingFieldError ==
    (\E i \in 1..4 : Absent(i)) => typedCall.out = Failed("Missing field in struct data")

\* C13: whenever the data lacks a declared field, hashStruct fails and returns
\* no digest; the error is the missing-field error when the declared fields
\* ahead of the absent one are present and encode, else it is the error of
\* the first field that does not encode.
C13_MissingFails ==
    \A i \in 1..4 :
        Absent(i) =>
            /\ ~typedCall.out.ok
            /\ EncodesUpTo(i) => typedCall.out = Failed("Missing field in struct data")

\* the second declared field is absent and the first one encodes
C13_Witness ==
    /\ Absent(2)
    /\ EncodesUpTo(2)
    /\ typedCall.out = Failed("Missing field in struct data")

\* the digits of a hex string, without its "0x"
HexBody(str) == IF substr(str, 0, 2) = <<48, 120>> THEN SubSeq(str, 3, Len(str)) ELSE str

\* the bytes that a string of pairs of hexadecimal digits denotes
PairBytes(body) ==
    [i \in 1..(Len(body) \div 2) |-> 16 * HexVal(body[2 * i - 1]) + HexVal(body[2 * i])]

IsHex(body) == \A i \in 1..Len(body) : IsHexDigit(body[i])

\* C14: for a string of 40 hexadecimal digits, with or without "0x",
\* encodeField("address") returns 32 bytes, 12 zero bytes and the 20 bytes that
\* the digits denote; for a value that does not decode to 20 bytes it fails.
C14_AddressWord ==
    (typedCall.op = "encodeField" /\ typedCall.type = Lit.address) =>
        IF typedCall.value[1] = "str" /\ Len(HexBody(typedCall.value[2])) = 40
        THEN IsHex(HexBody(typedCall.value[2])) =>
                /\ typedCall.out.ok
                /\ Len(typedCall.out.bytes) = 32
                /\ SubSeq(typedCall.out.bytes, 1, 12) = Rep(0, 12)
                /\ SubSeq(typedCall.out.bytes, 13, 32) = PairBytes(HexBody(typedCall.value[2]))
        ELSE ~typedCall.out.ok

\* the word of an address with digits of both cases
C14_Witness ==
    /\ typedCall.op = "encodeField"
    /\ typedCall.type = Lit.address
    /\ typedCall.value = JStr(MixedAddress)
    /\ typedCall.out.ok
    /\ typedCall.out.bytes[13] = 171

\* C15: for a string value, encodeField("string") returns Keccak-256 of its
\* characters, and encodeField("bytes"), on the hex of a byte string, returns
\* Keccak-256 of those bytes.
C15_DynamicHashed ==
    (typedCall.op = "encodeField" /\ typedCall.value[1] = "str") =>
        /\ typedCall.type = Lit.string =>
              /\ typedCall.out.ok
              /\ typedCall.out.bytes = DigestBytes(keccak256(typedCall.value[2]))
        /\ (/\ typedCall.type = Lit.bytes
            /\ IsHex(HexBody(typedCall.value[2]))
            /\ Len(HexBody(typedCall.value[2])) % 2 = 0) =>
              /\ typedCall.out.ok
              /\ typedCall.out.bytes
                   = DigestBytes(keccak256(PairBytes(HexBody(typedCall.value[2]))))

(***************************************************************************)
(* Properties of the action hash and of the two sign entry points          *)
(***************************************************************************)
\* C19: actionHash called with a vault address that does not decode to 20
\* bytes (its digits, without "0x", are not 40) throws and returns no digest.
C19_VaultLength ==
    (hashCall.op # "none" /\ hashCall.vault # None
        /\ Len(HexBody(hashCall.vault[2])) # 40) =>
            /\ ~hashCall.out.ok
            /\ hashCall.out.err \in {"Invalid vault address length",
                                     "Hex string must have even length"}

\* a call with an address of 21 bytes, refused for its length
C19_Witness ==
    /\ hashCall.op = "actionHash"
    /\ hashCall.vault = Some(LongVault)
    /\ hashCall.out = [ok |-> FALSE, err |-> "Invalid vault address length"]

Keys(j) == {j[2][i][1] : i \in 1..Len(j[2])}

AgentCall(c) == c.op = "constructPhantomAgent"

\* the agent of one call: source by the network, connectionId "0x" and the
\* two digits of every byte of the hash
AgentOf(c) ==
    /\ c.out[1] = "obj"
    /\ Keys(c.out) = {Lit.source, Lit.connectionId}
    /\ at(c.out, Lit.source) = JStr(IF c.is_mainnet THEN Lit.a ELSE Lit.b)
    /\ at(c.out, Lit.connectionId)[1] = "str"
    /\ LET id == at(c.out, Lit.connectionId)[2]
       IN  /\ Len(id) = 2 + 2 * Len(c.hash)
           /\ SubSeq(id, 1, 2) = <<48, 120>>
           /\ IsHex(SubSeq(id, 3, Len(id)))
           /\ PairBytes(SubSeq(id, 3, Len(id))) = c.hash

\* C16: the phantom agent has source "a" on mainnet and "b" on testnet and
\* the connectionId "0x" + hex of the action hash; two agents of one hash
\* agree in everything but source; domain, types and primaryType of the L1
\* payloads of any two agents are the same.
C16_PhantomAgent ==
    /\ \A i \in 1..2 : AgentCall(actionCall[i]) => AgentOf(actionCall[i])
    /\ (AgentCall(actionCall[1]) /\ AgentCall(actionCall[2])) =>
        /\ \A key \in {Lit.domain, Lit.types, Lit.primaryType} :
                at(actionCall[1].payload, key) = at(actionCall[2].payload, key)
        /\ actionCall[1].hash = actionCall[2].hash =>
                /\ WithoutKey(actionCall[1].out, Lit.source)
                       = WithoutKey(actionCall[2].out, Lit.source)
                /\ WithoutKey(at(actionCall[1].payload, Lit.message), Lit.source)
                       = WithoutKey(at(actionCall[2].payload, Lit.message), Lit.source)

\* one action hash, once for testnet and once for mainnet
C16_Witness ==
    /\ AgentCall(actionCall[1]) /\ AgentCall(actionCall[2])
    /\ actionCall[1].hash = actionCall[2].hash
    /\ ~actionCall[1].is_mainnet /\ actionCall[2].is_mainnet
    /\ at(actionCall[1].out, Lit.source) # at(actionCall[2].out, Lit.source)

UserCall(c) == c.op = "signUserSignedAction"

\* the payload of one user-signed call, and what was signed
UserSigned(c) ==
    LET message == at(c.out.payload, Lit.message)
        domain == at(c.out.payload, Lit.domain)
    IN  /\ contains(message, Lit.hyperliquidChain)
        /\ at(message, Lit.hyperliquidChain)
               = JStr(IF c.is_mainnet THEN Lit.Mainnet ELSE Lit.Testnet)
        /\ WithoutKey(message, Lit.hyperliquidChain)
               = WithoutKey(ToJson(c.action), Lit.hyperliquidChain)
        /\ Keys(domain) = {Lit.name, Lit.version, Lit.chainId, Lit.verifyingContract}
        /\ at(domain, Lit.name) = JStr(Lit.HyperliquidSignTransaction)
        /\ at(domain, Lit.version) = JStr(<<49>>)
        /\ at(domain, Lit.chainId) = JInt(I64(6 * 65536 + 6 * 4096 + 14 * 256 + 14 * 16 + 14))
        /\ at(domain, Lit.verifyingContract) = JStr(<<48, 120>> \o Rep(48, 40))
        /\ at(c.out.payload, Lit.primaryType) = JStr(c.primary_type)
        /\ c.out.ok =>
            /\ c.out.message_hash = encodeTypedData(c.out.payload).hash
            /\ c.out.signature = Wallet_signMessage(ec_key_[2], c.out.message_hash)

\* C17: the message that signUserSignedAction encodes and signs is the
\* caller's action with hyperliquidChain "Mainnet" or "Testnet" by the flag,
\* whatever the caller had there, under the domain HyperliquidSignTransaction,
\* "1", 0x66eee, zero address.
C17_ChainInjected == UserCall(actionCall[2]) => UserSigned(actionCall[2])

\* a caller who said "Mainnet", signed for testnet
C17_Witness ==
    /\ UserCall(actionCall[2])
    /\ contains(ToJson(actionCall[2].action), Lit.hyperliquidChain)
    /\ at(ToJson(actionCall[2].action), Lit.hyperliquidChain) = JStr(Lit.Mainnet)
    /\ ~actionCall[2].is_mainnet
    /\ actionCall[2].out.ok
    /\ at(at(actionCall[2].out.payload, Lit.message), Lit.hyperliquidChain) = JStr(Lit.Testnet)

L1Call(c) == c.op = "signL1Action"

\* hashStruct("EIP712Domain", domain) of the payload a sign call built
DomainSeparator(c) ==
    hashStruct(Lit.EIP712Domain, at(c.out.payload, Lit.domain),
               types_map(at(c.out.payload, Lit.types)))

DomainsApart(l1, user) ==
    /\ at(at(l1.out.payload, Lit.domain), Lit.name) = JStr(Lit.Exchange)
    /\ at(at(l1.out.payload, Lit.domain), Lit.chainId) = JInt(I64(1337))
    /\ at(at(user.out.payload, Lit.domain), Lit.name) = JStr(Lit.HyperliquidSignTransaction)
    /\ at(at(user.out.payload, Lit.domain), Lit.chainId) = JInt(I64(421614))
    /\ at(l1.out.payload, Lit.domain) # at(user.out.payload, Lit.domain)
    /\ DomainSeparator(l1).ok /\ DomainSeparator(user).ok
    /\ DomainSeparator(l1).encoded # DomainSeparator(user).encoded
    /\ DomainSeparator(l1).hash # DomainSeparator(user).hash
    /\ ("message_hash" \in DOMAIN l1.out /\ "message_hash" \in DOMAIN user.out) =>
            l1.out.message_hash # user.out.message_hash

\* C18: of a signL1Action call that built its payload and a
\* signUserSignedAction call, the EIP712Domain data differ (Exchange, 1337
\* against HyperliquidSignTransaction, 0x66eee), and so do the hashed bytes of
\* the domain, the domain separators and the digests signed.
C18_DomainsDistinct ==
    \A i, j \in 1..2 :
        (L1Call(actionCall[i]) /\ "payload" \in DOMAIN actionCall[i].out
            /\ UserCall(actionCall[j])) => DomainsApart(actionCall[i], actionCall[j])

\* an L1 action and then a user-signed action, both signed
C18_Witness ==
    /\ L1Call(actionCall[1]) /\ actionCall[1].out.ok
    /\ UserCall(actionCall[2]) /\ actionCall[2].out.ok
    /\ actionCall[1].out.message_hash # actionCall[2].out.message_hash

SignCall(c) == L1Call(c) \/ UserCall(c)

\* the stages whose values a sign call left behind
Reached(c) == DOMAIN c.out \ {"ok", "stage", "err"}

\* some parity recovers the signer from the returned r and s and the digest
RecoversSigner(c) ==
    \E recovery_id \in {0, 1} :
        RecoveredQ(SubSeq(c.out.message_hash, 32 - HashLen + 1, 32),
                   HexNum(SubSeq(c.out.signature.r, 3, Len(c.out.signature.r))),
                   HexNum(SubSeq(c.out.signature.s, 3, Len(c.out.signature.s))),
                   recovery_id) = ec_key_[2].pub

\* the stage at which the inputs of a call make it fail, "" if at none of
\* action hash and typed-data digest
FailsAt(c) ==
    IF L1Call(c)
    THEN IF ~actionHash(c.action, c.vault, c.nonce, None).ok THEN "actionHash" ELSE ""
    ELSE IF \/ \E k \in 1..Len(c.payload_types) :
                    /\ c.payload_types[k].name # Lit.hyperliquidChain
                    /\ ~contains(ToJson(c.action), c.payload_types[k].name)
            \/ \E k \in 1..Len(c.payload_types) :
                    c.payload_types[k].type
                        \notin {Lit.string, Lit.bytes32, Lit.uint64, Lit.uint256, Lit.address}
         THEN "encodeTypedData" ELSE ""

\* C20: a sign call returns a Signature only when action hash, payload,
\* typed-data digest and signing all succeeded, a recovery mismatch being a
\* failure of signing; a call that fails ends at the first failing stage with
\* an error, leaves nothing of a later stage and returns no Signature.
C20_AllStagesOrNothing ==
    \A i \in 1..2 : SignCall(actionCall[i]) =>
        LET c == actionCall[i]
        IN  /\ FailsAt(c) # "" => ~c.out.ok /\ c.out.stage = FailsAt(c)
            /\ ~c.out.ok =>
                /\ "err" \in DOMAIN c.out
                /\ "signature" \notin Reached(c)
                /\ c.out.stage = "actionHash" => Reached(c) = {}
                /\ c.out.stage = "encodeTypedData" => Reached(c) \subseteq {"hash", "payload"}
            /\ c.out.ok =>
                /\ FailsAt(c) = ""
                /\ encodeTypedData(c.out.payload).ok
                /\ c.out.message_hash = encodeTypedData(c.out.payload).hash
                /\ RecoversSigner(c)

(***************************************************************************)
(* Properties of the integers of an action                                 *)
(***************************************************************************)
\* the integers of a json, in the order in which packJson comes to them
RECURSIVE IntLeaves(_)
IntLeaves(j) ==
    IF j[1] \in {"int", "uint"} THEN <<j>>
    ELSE IF j[1] = "arr" THEN Concat([i \in 1..Len(j[2]) |-> IntLeaves(j[2][i])])
    ELSE IF j[1] = "obj" THEN Concat([i \in 1..Len(j[2]) |-> IntLeaves(j[2][i][2])])
    ELSE <<>>

\* the integers written into a msgpack stream, each with its format byte
RECURSIVE IntTokens(_)
IntTokens(bytes) ==
    IF bytes = <<>> THEN <<>>
    ELSE LET b == bytes[1] IN
         IF (b >= 160 /\ b <= 191) \/ b = 217 THEN IntTokens(StrAt(bytes)[2])
         ELSE IF (b >= 128 /\ b <= 159) \/ b \in {192, 194, 195} THEN IntTokens(Tail(bytes))
         ELSE <<SubSeq(bytes, 1, ScalarLen(b))>>
                  \o IntTokens(SubSeq(bytes, 1 + ScalarLen(b), Len(bytes)))

\* the narrowest msgpack integer for the value of a leaf: an unsigned leaf is
\* its magnitude, a signed one is negative when its sign bit is set
MinimalInt(leaf) ==
    LET x == leaf[2] IN
    IF leaf[1] = "uint" \/ ~IsNeg(x)
    THEN IF Below(x, 7) THEN LowBytes(x, 1)
         ELSE IF Below(x, 8) THEN <<204>> \o LowBytes(x, 1)
         ELSE IF Below(x, 16) THEN <<205>> \o LowBytes(x, 2)
         ELSE IF Below(x, 32) THEN <<206>> \o LowBytes(x, 4)
         ELSE <<207>> \o LowBytes(x, 8)
    ELSE IF NotBelowNeg(x, 5) THEN LowBytes(x, 1)
         ELSE IF NotBelowNeg(x, 7) THEN <<208>> \o LowBytes(x, 1)
         ELSE IF NotBelowNeg(x, 15) THEN <<209>> \o LowBytes(x, 2)
         ELSE IF NotBelowNeg(x, 31) THEN <<210>> \o LowBytes(x, 4)
         ELSE <<211>> \o LowBytes(x, 8)

\* C23: the integers read back from the bytes actionHash encoded are, one for
\* one, the integers of the action in their narrowest encoding by magnitude;
\* an unsigned value, up to 2^64 - 1, is written as an unsigned integer.
C23_MinimalInts ==
    Hashed =>
        LET leaves == IntLeaves(ToJson(hashCall.action))
            enc == packJson(ToJson(hashCall.action))
        IN  IntTokens(SubSeq(hashCall.out.data, 1, Len(enc)))
                = [i \in 1..Len(leaves) |-> MinimalInt(leaves[i])]

(***************************************************************************)
(* Properties of the hexadecimal conversions                               *)
(***************************************************************************)
\* C24: hexToBytes gives back, for the string bytesToHex made of a byte
\* vector, with the prefix "0x" or without it, that byte vector; the empty
\* vector included.
C24_RoundTrip ==
    typedCall.op = "hexToBytes" =>
        /\ typedCall.out.ok
        /\ typedCall.out.bytes = typedCall.from

\* the round trip of 00 09 ff without the prefix
C24_Witness ==
    /\ typedCall.op = "hexToBytes"
    /\ typedCall.from = <<0, 9, 255>>
    /\ ~typedCall.with_prefix
    /\ typedCall.hex = <<48, 48, 48, 57, 102, 102>>
    /\ typedCall.out.ok

\* the round trip of the empty vector behind "0x"
C24_WitnessEmpty ==
    /\ typedCall.op = "hexToBytes"
    /\ typedCall.from = <<>>
    /\ typedCall.with_prefix
    /\ typedCall.hex = <<48, 120>>
    /\ typedCall.out = [ok |-> TRUE, bytes |-> <<>>]

(***************************************************************************)
(* Properties of the nonce                                                 *)
(***************************************************************************)
\* the candidates of step h3 from <<K, V>> on, n of them, K and V updated
\* after each: K = HMAC_K(V || 0x00), V = HMAC_K(V)
RECURSIVE Candidates(_, _, _)
Candidates(K, V, n) ==
    IF n = 0 THEN <<>>
    ELSE LET T == HMAC(K, V)
             K2 == HMAC(K, T \o <<0>>)
         IN  <<BN_bin2bn(T)>> \o Candidates(K2, HMAC(K2, T), n - 1)

MaxCandidates == 4

\* the place, among the candidates of a call, of the first one in [1, order - 1]
FirstInRange(c) ==
    IF \E n \in 1..Len(c) : c[n] \in 1..(order - 1)
    THEN CHOOSE n \in 1..Len(c) : c[n] \in 1..(order - 1) /\ \A i \in 1..(n - 1) : c[i] \notin 1..(order - 1)
    ELSE 0

SignCandidates ==
    LET seed == SeedKV(ec_key_[2].priv, signCall.hash)
    IN  Candidates(seed[1], seed[2], MaxCandidates)

\* C25: the nonce of a signHash call is in [1, order - 1]; it is the first
\* candidate in that range, K = HMAC_K(V || 0x00) and V = HMAC_K(V) being
\* applied after every candidate that is zero or not below the order.
C25_NonceInRange ==
    (signCall.op = "signHash" /\ Len(signCall.hash) = HashLen) =>
        LET k == generateDeterministicK(ec_key_[2].priv, signCall.hash)
            n == FirstInRange(SignCandidates)
        IN  /\ k \in 1..(order - 1)
            /\ n > 0
            /\ k = SignCandidates[n]

\* a call whose first candidate was not below the order
C25_Witness ==
    /\ Signed
    /\ SignCandidates[1] >= order
    /\ FirstInRange(SignCandidates) = 2
    /\ generateDeterministicK(ec_key_[2].priv, signCall.hash) = SignCandidates[2]

\* C26: a call that has entered the loop of step h3 leaves it, with a nonce
\* or with a fatal error, whatever the hash backend returns.
C26_LoopEnds == (loop.op = "while") ~> (loop.op \in {"break", "throw"})

(***************************************************************************)
(* Properties of the framing of nonce, vault address and expiry            *)
(***************************************************************************)
OtherVault == <<48, 120>> \o Rep(48, 38) \o <<48, 49>>     \* 0x00..01

\* the triples a hashed one is compared with
TripleVaults == {None, Some(ValidVault), Some(OtherVault)}
TripleNonces == {Timestamp, I64(-2), I64(0), I64(1), I64(256)}
TripleExpiries == {None, Some(I64(258)), Some(I64(0)), Some(I64(1)), Some(Timestamp)}

\* the bytes of a vault address, or its absence
VaultBytes(vault) == IF vault = None THEN None ELSE Some(hexToBytes(vault[2]).bytes)

\* C27: the bytes actionHash hashed for an action with (nonce, vault, expiry)
\* differ from the bytes it hashes for the same action with any other triple,
\* one with the vault or the expiry absent instead of present included.
C27_Injective ==
    Hashed =>
        \A vault \in TripleVaults, nonce \in TripleNonces, expires \in TripleExpiries :
            <<VaultBytes(vault), nonce, expires>>
                    # <<VaultBytes(hashCall.vault), hashCall.nonce, hashCall.expires>>
            => LET other == actionHashData(ToJson(hashCall.action), vault, nonce, expires)
               IN  other.ok /\ other.bytes # hashCall.out.data

\* an action hashed with a vault address and an expiry, and the same bytes
\* but for the expiry hashed otherwise
C27_Witness ==
    /\ Hashed
    /\ hashCall.vault = Some(ValidVault)
    /\ hashCall.expires = Some(I64(258))
    /\ LET other == actionHashData(ToJson(hashCall.action), hashCall.vault,
                                   hashCall.nonce, None)
       IN  /\ other.bytes # hashCall.out.data
           /\ other.bytes = SubSeq(hashCall.out.data, 1, Len(other.bytes))

(***************************************************************************)
(* Properties of the ownership of the key                                  *)
(***************************************************************************)
\* the Wallet that fromPrivateKey constructed on the EC_KEY h
Owner(h) == CHOOSE w \in 1..Len(wallets) : wallets[w].ec_key_ = h /\ ~wallets[w].copied

\* C22: every EC_KEY is freed at most once, it is freed exactly when the
\* Wallet that fromPrivateKey made for it has been destroyed, and it is not
\* used after it was freed.
C22_ExclusiveOwner ==
    \A h \in 1..Len(heap) :
        /\ heap[h].freed <= 1
        /\ heap[h].freed = 1 <=> wallets[Owner(h)].destroyed
        /\ ~heap[h].used_freed

(***************************************************************************)
(* Properties of concurrent signing                                        *)
(***************************************************************************)
\* C21: whatever the interleaving of the signMessage calls of the threads on
\* the one Wallet, a call returns the Signature that signHash gives for its
\* digest alone; the EC_KEY and the address of the Wallet stay those that
\* fromPrivateKey made.
C21_NoLock ==
    calls # <<>> =>
        /\ \A t \in Threads :
                calls.at[t] = "return" => calls.out[t] = signHash(SharedKey, calls.hash[t])
        /\ heap[1].freed = 0
        /\ \E private_key_hex \in WalletKeys :
                Wallet_fromPrivateKey(private_key_hex).wallet
                    = [ec_key_ |-> SharedKey, address_ |-> wallets[1].address_]

\* one call has returned while the call of the other thread, on another
\* digest, has its k, r and s and not yet its result
C21_Witness ==
    /\ calls # <<>>
    /\ calls.at[1] = "return" /\ calls.at[2] = "v"
    /\ calls.hash[1] # calls.hash[2]
    /\ calls.frame[1] # calls.frame[2]
    /\ calls.out[1] = signHash(SharedKey, calls.hash[1])

(***************************************************************************)
(* Properties of the Info tables                                           *)
(***************************************************************************)

\* every value of name_to_coin_ is a key of coin_to_asset_, every value of
\* coin_to_asset_ is a key of asset_to_sz_decimals_
TablesChained ==
    /\ \A name \in DOMAIN name_to_coin_ : name_to_coin_[name] \in DOMAIN coin_to_asset_
    /\ \A coin \in DOMAIN coin_to_asset_ :
            coin_to_asset_[coin] \in DOMAIN asset_to_sz_decimals_

\* nameToAsset returns an asset for every registered name and fails only for a
\* name that was never registered
Resolves ==
    /\ \A name \in DOMAIN name_to_coin_ : nameToAsset(Tables, name).ok
    /\ infoCall.op = "nameToAsset" =>
            IF infoCall.name \in DOMAIN name_to_coin_
            THEN infoCall.out = [ok |-> TRUE,
                                 asset |-> coin_to_asset_[name_to_coin_[infoCall.name]]]
            ELSE infoCall.out = Failed("Unknown asset name")

\* the BASE/QUOTE names of the pairs of a spot metadata
Aliases(spot_meta) ==
    { pair_format(spot_meta, spot_meta.universe[i]) : i \in 1..Len(spot_meta.universe) }

\* the first pair of the universe with that BASE/QUOTE name
FirstUnder(spot_meta, alias) ==
    LET first == CHOOSE i \in 1..Len(spot_meta.universe) :
                    /\ pair_format(spot_meta, spot_meta.universe[i]) = alias
                    /\ \A j \in 1..(i - 1) :
                            pair_format(spot_meta, spot_meta.universe[j]) # alias
    IN  spot_meta.universe[first].name

\* the names after registerSpotMeta(spot_meta), after registerPerpMeta(meta, offset)
SpotNames(spot_meta) == registerSpotMeta(Tables, spot_meta).name_to_coin_
PerpNames(meta, offset) == setPerpMeta(Tables, meta, offset).name_to_coin_

\* whatever is registered next, a name keeps its coin and every alias of the
\* registered pairs keeps the pair it had, or takes the first pair registered
\* under it
AliasKeepsFirst ==
    /\ \A meta \in PerpMetas, offset \in Offsets, name \in DOMAIN name_to_coin_ :
            PerpNames(meta, offset)[name] = name_to_coin_[name]
    /\ \A spot_meta \in SpotMetas :
            /\ \A name \in DOMAIN name_to_coin_ :
                    SpotNames(spot_meta)[name] = name_to_coin_[name]
            /\ \A alias \in Aliases(spot_meta) :
                    SpotNames(spot_meta)[alias] =
                        IF alias \in DOMAIN name_to_coin_ THEN name_to_coin_[alias]
                        ELSE FirstUnder(spot_meta, alias)

\* the coins after registerSpotMeta(spot_meta), after registerPerpMeta(meta, offset)
SpotCoins(spot_meta) == DOMAIN registerSpotMeta(Tables, spot_meta).coin_to_asset_
PerpCoins(meta, offset) == DOMAIN setPerpMeta(Tables, meta, offset).coin_to_asset_

\* the same, but a name that is itself a registered coin stands for that coin
AliasKeepsFirstUnlessCoin ==
    /\ \A meta \in PerpMetas, offset \in Offsets, name \in DOMAIN name_to_coin_ :
            PerpNames(meta, offset)[name] =
                IF name \in PerpCoins(meta, offset) THEN name ELSE name_to_coin_[name]
    /\ \A spot_meta \in SpotMetas :
            /\ \A name \in DOMAIN name_to_coin_ :
                    SpotNames(spot_meta)[name] =
                        IF name \in SpotCoins(spot_meta) THEN name ELSE name_to_coin_[name]
            /\ \A alias \in Aliases(spot_meta) :
                    SpotNames(spot_meta)[alias] =
                        IF alias \in SpotCoins(spot_meta) THEN alias
                        ELSE IF alias \in DOMAIN name_to_coin_ THEN name_to_coin_[alias]
                        ELSE FirstUnder(spot_meta, alias)

\* C30 as stated: after any sequence of registerPerpMeta and registerSpotMeta
\* calls the tables are chained, nameToAsset resolves every registered name and
\* fails only for an unregistered one, and a BASE/QUOTE alias keeps the first
\* pair registered under it.
C30_AliasKeepsFirst == TablesChained /\ Resolves /\ AliasKeepsFirst

\* C30: after any sequence of registerPerpMeta and registerSpotMeta calls the
\* tables are chained, nameToAsset resolves every registered name and fails only
\* for an unregistered one, and a BASE/QUOTE alias keeps the first pair
\* registered under it unless a pair with that very name is registered, which
\* the name then stands for.
C30_Chained == TablesChained /\ Resolves /\ AliasKeepsFirstUnlessCoin

\* "@2" was registered under PURR/USDC after "@1" and the alias still names
\* "@1"; nameToAsset has resolved a name
C30_Witness ==
    /\ "PURR/USDC" \in DOMAIN name_to_coin_ /\ name_to_coin_["PURR/USDC"] = "@1"
    /\ "@2" \in DOMAIN coin_to_asset_
    /\ 10002 \in DOMAIN asset_to_sz_decimals_ /\ asset_to_sz_decimals_[10002] = 0
    /\ infoCall.op = "nameToAsset" /\ infoCall.name = "PURR/USDC"
    /\ infoCall.out = [ok |-> TRUE, asset |-> 10001]

(***************************************************************************)
(* Properties of the posted envelope                                       *)
(***************************************************************************)
L1Operations ==
    {"bulkOrders", "bulkCancel", "bulkCancelByCloid", "bulkModifyOrders", "updateLeverage"}

\* the optional that a member of the envelope stands for: none when null
OptionalOf(envelope, key) ==
    IF at(envelope, key) = JNull THEN None ELSE Some(at(envelope, key)[2])

\* signL1Action over the members of an envelope
Resigned(envelope) ==
    signL1Action(ec_key_[2], at(envelope, Word.action),
                 OptionalOf(envelope, Word.vaultAddress), at(envelope, Word.nonce)[2],
                 OptionalOf(envelope, Word.expiresAfter), is_mainnet)

\* C28: after any sequence of setExpiresAfter calls and L1 operations, the
\* envelope posted to /exchange carries the action, the nonce, the vault
\* address (null exactly when none was hashed) and the expiresAfter (null
\* exactly when none was hashed) that went into its signature: hashing and
\* signing the members of the envelope gives the action hash that was signed
\* and the signature in the envelope.
C28_EnvelopeAsSigned ==
    (posted.op \in L1Operations /\ posted.at = "return") =>
        /\ \A key \in {Word.action, Word.nonce, Word.vaultAddress, Word.expiresAfter,
                       Word.signature} : contains(posted.payload, key)
        /\ at(posted.payload, Word.vaultAddress)[1] \in {"null", "str"}
        /\ at(posted.payload, Word.expiresAfter)[1] \in {"null", "int"}
        /\ \A resigned \in {Resigned(posted.payload)} :
                /\ resigned.ok
                /\ resigned.hash = posted.hash
                /\ Signature_toJson(resigned.signature) = at(posted.payload, Word.signature)

\* an order was posted for a vault with an expiry, the expiry cleared afterwards
C28_Witness ==
    /\ posted.op = "bulkOrders" /\ posted.at = "return"
    /\ vault_address_ = ValidVault
    /\ at(posted.payload, Word.vaultAddress) = JStr(ValidVault)
    /\ at(posted.payload, Word.expiresAfter) = JInt(I64(258))
    /\ at(posted.payload, Word.nonce) = JInt(Timestamp)
    /\ expires_after_ = None

\* C29: for usdTransfer and spotTransfer the action in the posted envelope has
\* every field of the declared payload types, hyperliquidChain included, with
\* the value that was signed, and the posted nonce is the signed time.
C29_PostedAsSigned ==
    (posted.op \in {"usdTransfer", "spotTransfer"} /\ posted.at = "return") =>
        /\ \A i \in 1..Len(posted.payload_types) :
                /\ contains(at(posted.payload, Word.action), posted.payload_types[i].name)
                /\ at(at(posted.payload, Word.action), posted.payload_types[i].name)
                        = at(posted.signed, posted.payload_types[i].name)
        /\ at(posted.payload, Word.nonce) = at(posted.signed, Lit.time)

====
